---- MODULE Spec2Model ----
(***************************************************************************)
(* Model of the room-listing tracker:                                      *)
(*   the throttled enrichment batchers                                     *)
(*     batch_fetch_commutes         (src/geo/commutes.py)                  *)
(*     batch_create_listing_stored  (src/fetch_listing_details/            *)
(*                                   fetch_listing_details.py),            *)
(*     specification Spec;                                                 *)
(*   the search scraper fetch_listings (fetch.py) under main.py,           *)
(*     specification SpecSearch;                                           *)
(*   the table scraper fetch_table (src/wg_zimmer_ch/fetch_table.py),      *)
(*     specification SpecTable;                                            *)
(*   the results-page parser parse_wgzimmer_search_results (parse.py and   *)
(*     src/wg_zimmer_ch/fetch_table.py), specification SpecParse;          *)
(*   mark_listings_as_deleted (src/database.py), specification SpecDb;     *)
(*   refresh_all (src/refresh.py) with update_database, upsert_listings    *)
(*     and insert (src/database.py), specification SpecRefresh;            *)
(*   the transit summaries (src/geo/public_transport.py and                *)
(*     src/fetch_listing_details/commute_data.py), specification           *)
(*     SpecTransit;                                                        *)
(*   the dashboard's fetch thread (app.py), specification SpecDash;        *)
(*   run_wgzimmer_fetcher (src/sdk.py), specification SpecSdk.             *)
(* Each specification holds the variables of the other programs fixed.     *)
(* Batcher time is an integer clock counted in ticks; a worker call that   *)
(* finishes advances the clock by the time that passed since the previous  *)
(* event.                                                                  *)
(***************************************************************************)
EXTENDS Integers, Sequences, FiniteSets, TLC

\* ------------------------------------------------------------------ bounds
MaxInputs == 7
TicksPerSecond == 10
ShortWork == 4
LongWork == 300
MaxPages == 3
MaxIter == 4
MaxCounterLen == 5
MaxEntries == 2
MaxUrls == 3
MaxListings == 2
MaxDay == 2
MaxRuns == 2
MaxConnections == 2
MaxSections == 2
MaxLines == 3
MaxSessions == 2
MaxThreads == 2
MaxLogLines == 1
ExamplePerPage == 10

\* ------------------------------------------------------- program constants
MAX_WORKERS == 4
WINDOW_SECONDS == 60
SECOND_SECONDS == 1
MAX_REQUESTS_PER_SECOND == 2
RETRY_SLEEP_SECONDS == 20
PRICE_START == 200
PRICE_STOP == 1550
PRICE_STEP == 50
MAIN_MIN_PRICE == 200
MAIN_MAX_PRICE == 800

Window == WINDOW_SECONDS * TicksPerSecond
Second == SECOND_SECONDS * TicksPerSecond
Capacities == {3, 5}
Deltas == {ShortWork, LongWork}
Variants == {"commutes", "stored"}

VARIABLES
    variant,        \* which batcher runs: "commutes" or "stored"
    maxPerMinute,   \* max_requests_per_minute
    inputs,         \* the input listings, in input order
    env,            \* what each collaborator answers for the i-th listing
    pc,             \* position of the batcher's main thread
    ci,             \* 1-based index of the current minute batch
    si,             \* 1-based index of the current second batch ("stored")
    now,            \* time.time()
    minuteStart,    \* minute_start
    secStart,       \* start
    status,         \* per input index: state of its future in the pool
    results,        \* per input index: what its worker returned
    outputs,        \* the dict outputs: url -> listing
    returned,       \* the list the batcher returns
    opStart,        \* history: index -> time its worker call started
    chunkStart,     \* history: start time of every minute batch begun
    chunkElapsed,   \* history: elapsed measured at the end of each minute batch
    chunkSleep,     \* history: time slept at the end of each minute batch
    sleeps,         \* history: every time.sleep call performed
    writes          \* history: every assignment outputs[key] = lst, in order

batcherVars == <<variant, maxPerMinute, inputs, env, pc, ci, si, now,
                 minuteStart, secStart, status, results, outputs, returned,
                 opStart, chunkStart, chunkElapsed, chunkSleep, sleeps, writes>>

\* The search scraper: main.py and fetch.py.
VARIABLES
    site,           \* the result pages the site serves: per page its listing URLs
    mpc,            \* position of main.py
    fpc,            \* position of the running fetch_listings call
    attempts,       \* history: number of fetch_listings calls main.py has made
    mainSleeps,     \* history: every time.sleep of main.py, in seconds
    raisedKind,     \* the exception that left the latest fetch_listings call
    firstRaised,    \* history: the exception that left the first call
    page,           \* fetch_listings: whether the local page is set
    afterSubmit,    \* history: what the page showed after the submit click
    page_num,       \* scrape_results_pages: page_num
    total_pages,    \* scrape_results_pages: total_pages
    all_listings,   \* scrape_results_pages: all_listings
    clicks,         \* history: number of next_button.click() calls
    stop,           \* history: which break ended the pagination loop
    pagesLog,       \* history: one record per loop iteration
    listings,       \* fetch_listings: the list scrape_results_pages returned
    res,            \* main.py: res
    min_price,      \* fetch_listings: the argument min_price
    max_price,      \* fetch_listings: the argument max_price
    browser,        \* whether the Playwright browser is launched and not closed
    prepared,       \* history: what navigate_and_prepare_search saw and did
    shots,          \* history: the names of the take_screenshot calls, in order
    trace           \* history: the steps of fetch_listings run, with outcome

searchVars == <<mpc, fpc, attempts, mainSleeps, raisedKind, firstRaised, page,
                afterSubmit, page_num, total_pages, all_listings, clicks, stop,
                pagesLog, listings, res, min_price, max_price, browser,
                prepared, shots, trace>>

\* The table scraper: src/wg_zimmer_ch/fetch_table.py.
VARIABLES
    t_pc,           \* position of fetch_table / extract_listings
    t_listings,     \* extract_listings: the set listings
    t_clicks,       \* history: number of clicks on the next control
    t_log,          \* history: one record per loop iteration
    t_raised,       \* the exception fetch_table caught
    t_ret,          \* what fetch_table returned
    t_open,         \* history: what open_listings_page saw and did
    t_cut           \* the first page whose last entry is older than
                    \* last_update_date; beyond the last page when none is

tableVars == <<t_pc, t_listings, t_clicks, t_log, t_raised, t_ret, t_open,
               t_cut>>

\* The results-page parser: parse.py and fetch_table.py.
VARIABLES
    p_pc,           \* whether the parser has run, and which one
    p_counter,      \* the page: texts of the first counter span, none or one
    p_entries,      \* the page: the entries of the result list
    p_result        \* what the parser returned

parseVars == <<p_pc, p_counter, p_entries, p_result>>

\* The listings table: src/database.py.
VARIABLES
    d_pc,           \* whether mark_listings_as_deleted has run
    table,          \* the rows of ListingSQL by url
    d_urls,         \* mark_listings_as_deleted: urls
    d_website,      \* mark_listings_as_deleted: website
    d_before,       \* history: the rows before the call
    d_count         \* what mark_listings_as_deleted returned

dbVars == <<d_pc, table, d_urls, d_website, d_before, d_count>>

\* The refresh of the three websites: src/refresh.py and src/database.py.
VARIABLES
    r_pc,           \* refresh_all: idle, or the website that is next
    r_run,          \* the number of runs started
    r_now,          \* now of the run: the day and the clock reading
    r_posted,       \* wg-zimmer.ch: the day each listing was posted
    r_rows,         \* the rows of ListingSQL by url
    r_updates,      \* the updates table
    r_last,         \* how the last run ended
    r_log           \* history: the last website step, as a list of one entry

refreshVars == <<r_pc, r_run, r_now, r_posted, r_rows, r_updates, r_last, r_log>>

\* The transit summaries: src/geo/public_transport.py and
\* src/fetch_listing_details/commute_data.py.
VARIABLES
    x_pc,           \* whether the answer was summarized
    x_pipeline,     \* which of the two pipelines runs
    x_conns,        \* the candidate connections of the answer
    x_best,         \* history: the index of the connection summarized
    x_result        \* the PublicTransportConnection returned

transitVars == <<x_pc, x_pipeline, x_conns, x_best, x_result>>

\* The dashboard: app.py.
VARIABLES
    sessions,       \* the browser sessions that loaded the app
    fetching,       \* st.session_state.fetching of each session
    threads,        \* the fetch threads started, in order
    LOG_QUEUE       \* the messages put and not yet taken

dashVars == <<sessions, fetching, threads, LOG_QUEUE>>

\* The container wrapper: run_wgzimmer_fetcher of src/sdk.py.
VARIABLES
    s_pc,                   \* where the generator stands
    s_lines,                \* the lines yielded so far
    success_detected,
    clean_exit_detected,
    return_code,
    s_outcome               \* how the generator ended

sdkVars == <<s_pc, s_lines, success_detected, clean_exit_detected, return_code,
             s_outcome>>

laterVars == <<refreshVars, transitVars, dashVars, sdkVars>>

vars == <<batcherVars, site, searchVars, tableVars, parseVars, dbVars, laterVars>>

\* What a batcher step leaves alone.
others == <<site, searchVars, tableVars, parseVars, dbVars, laterVars>>

Min(a, b) == IF a < b THEN a ELSE b
Max(a, b) == IF a > b THEN a ELSE b

\* ----------------------------------------------------------- collaborators
BikeAnswers == {"ok", "http_error", "network_error", "empty_routes", "missing_key"}
TransitAnswers == {"ok", "http_error", "network_error", "invalid_json",
                   "no_connections", "malformed"}
PageAnswers == {"ok", "http_error", "network_error", "parse_error"}

NominalEnv == [page |-> "ok", geo |-> "ok", bike |-> "ok", pt |-> "ok"]

\* fetch_bike_connection of src/geo/bike.py: the value assigned to listing.bike,
\* "unset" for None, "raise" when the exception leaves the function.
fetch_bike_connection(answer) ==
    CASE answer = "ok"            -> "fetched"
      [] answer = "http_error"    -> "unset"   \* raise_for_status: RequestException
      [] answer = "network_error" -> "unset"   \* requests.post: RequestException
      [] answer = "missing_key"   -> "unset"   \* KeyError / IndexError
      [] answer = "empty_routes"  -> "raise"   \* min([]) raises ValueError

\* fetch_public_transport_connection of src/geo/public_transport.py.
fetch_public_transport_connection(answer) ==
    CASE answer = "ok"             -> "fetched"
      [] answer = "network_error"  -> "raise"   \* requests.get is outside any try
      [] answer = "http_error"     -> "unset"   \* not resp.ok
      [] answer = "invalid_json"   -> "raise"   \* resp.json() is outside the try
      [] answer = "no_connections" -> "unset"
      [] answer = "malformed"      -> "unset"   \* summarize_connection raised

\* fetch_journey of src/fetch_listing_details/commute_data.py.
fetch_journey(answer) ==
    CASE answer = "ok"             -> "fetched"
      [] answer = "network_error"  -> "raise"
      [] answer = "http_error"     -> "unset"
      [] answer = "invalid_json"   -> "raise"
      [] answer = "no_connections" -> "unset"
      [] answer = "malformed"      -> "unset"

\* fetch_location: (lat, lon) or (None, None), never an exception.
fetch_location(answer) == IF answer = "ok" THEN "set" ELSE "unset"

Raised == [raised |-> TRUE]

\* The requests fetch_commutes(listing) issues, lines 19-26: the transit
\* request is reached only when the bike request did not raise.
CommuteRequests(listing, e) ==
    IF listing.latlon = "unset" THEN {}
    ELSE (IF listing.bike = "unset" THEN {"bike"} ELSE {})
         \cup (IF /\ listing.pt = "unset"
                  /\ (listing.bike = "unset" => fetch_bike_connection(e.bike) # "raise")
               THEN {"transit"} ELSE {})

\* fetch_commutes without the tests of lines 19 and 23: both connections are
\* fetched again.
fetch_commutes_Refetch(listing, e) ==
    IF listing.latlon = "unset"
    THEN Raised
    ELSE LET b == fetch_bike_connection(e.bike)
             p == fetch_public_transport_connection(e.pt)
         IN  IF b = "raise" \/ p = "raise"
             THEN Raised
             ELSE [listing EXCEPT !.bike = b, !.pt = p]

\* fetch_commutes(listing): the listing returned, or Raised.
fetch_commutes(listing, e) ==
    IF listing.latlon = "unset"
    THEN Raised                                   \* assert latitude and longitude
    ELSE LET b == IF listing.bike = "unset"
                  THEN fetch_bike_connection(e.bike) ELSE listing.bike
             p == IF listing.pt = "unset"
                  THEN fetch_public_transport_connection(e.pt) ELSE listing.pt
         IN  IF b = "raise" \/ p = "raise"
             THEN Raised
             ELSE [listing EXCEPT !.bike = b, !.pt = p]

\* extract_atributes(listing, response): the listing, or Raised.
extract_atributes(listing, e) ==
    IF e.page = "parse_error"
    THEN Raised
    ELSE LET g == fetch_location(e.geo)
             located == [listing EXCEPT !.latlon = g]
         IN  IF g = "unset"
             THEN [ok |-> located, partial |-> located]
             ELSE LET p == fetch_journey(e.pt)
                      b == fetch_bike_connection(e.bike)
                  IN  IF p = "raise"
                      THEN [raised |-> TRUE, partial |-> located]
                      ELSE IF b = "raise"
                           THEN [raised |-> TRUE,
                                 partial |-> [located EXCEPT !.pt = p]]
                           ELSE [ok |-> [located EXCEPT !.pt = p, !.bike = b],
                                 partial |-> located]

\* create_listing_stored(scraped, now): the listing returned, or Raised.
create_listing_stored(listing, e) ==
    IF e.page = "network_error"
    THEN Raised                                   \* requests.get outside the try
    ELSE IF e.page = "http_error"
         THEN listing
         ELSE LET r == extract_atributes(listing, e)
              IN  IF r = Raised
                  THEN listing
                  ELSE IF "raised" \in DOMAIN r
                       THEN r.partial             \* listing was mutated in place
                       ELSE r.ok

\* The function the pool maps over the batch.
Worker(v, listing, e) ==
    IF v = "commutes" THEN fetch_commutes(listing, e)
    ELSE create_listing_stored(listing, e)

\* ------------------------------------------------------------------ chunks
\* Mutant: the slice runs one item too far, lst[i : i + n + 1].
chunked_Overlap(lst, n) ==
    [k \in 1..((Len(lst) + n - 1) \div n) |->
        SubSeq(lst, (k - 1) * n + 1, Min(k * n + 1, Len(lst)))]

\* chunked(lst, n) = [lst[i : i + n] for i in range(0, len(lst), n)]
chunked(lst, n) ==
    [k \in 1..((Len(lst) + n - 1) \div n) |->
        SubSeq(lst, (k - 1) * n + 1, Min(k * n, Len(lst)))]

Indices == [i \in 1..Len(inputs) |-> i]
Range(s) == {s[i] : i \in DOMAIN s}

chunks == chunked(Indices, maxPerMinute)
minute_batch == chunks[ci]
sec_batches == chunked(minute_batch, MAX_REQUESTS_PER_SECOND)
sec_batch == sec_batches[si]

\* The batch the pool is working on.
CurrentBatch == IF variant = "commutes" THEN minute_batch ELSE sec_batch

\* Mutant: ThreadPoolExecutor(max_workers=len(minute_batch)).
PoolSize_WholeBatch(v, batchLen) == batchLen

\* ThreadPoolExecutor(max_workers=...)
PoolSize(v, batchLen) == IF v = "commutes" THEN MAX_WORKERS ELSE batchLen

\* list(executor.map(...)) has every result.
BatchDone(batch) == \A k \in DOMAIN batch : status[batch[k]] = "done"

\* Mutant: minute_start is taken once, before the loop.
CommutesSleep_FromRunStart(elapsed, i, nchunks) ==
    LET e == now - chunkStart[1]
    IN  IF e < Window /\ i + 1 < nchunks THEN Window - e ELSE 0

\* Mutant: the guard reads i + 2 < len(chunks).
CommutesSleep_SkipBeforeLast(elapsed, i, nchunks) ==
    IF elapsed < Window /\ i + 2 < nchunks THEN Window - elapsed ELSE 0

\* Mutant: catch-up scheduling, the sleep ends on the grid of the run's start.
CommutesSleep_CatchUp(elapsed, i, nchunks) ==
    IF i + 1 < nchunks
    THEN Max(0, chunkStart[1] + (i + 1) * Window - now)
    ELSE 0

\* Mutant: the last chunk waits out its window too.
CommutesSleep_Trailing(elapsed, i, nchunks) ==
    IF elapsed < Window THEN Window - elapsed ELSE 0

\* The sleep at the end of a minute batch of batch_fetch_commutes:
\* if elapsed < 60.0 and i + 1 < len(chunks): time.sleep(60.0 - elapsed)
CommutesSleep(elapsed, i, nchunks) ==
    IF elapsed < Window /\ i + 1 < nchunks THEN Window - elapsed ELSE 0

\* The sleep at the end of a minute batch of batch_create_listing_stored:
\* if elapsed < 60.0: time.sleep(60.0 - elapsed)
StoredMinuteSleep(elapsed) == IF elapsed < Window THEN Window - elapsed ELSE 0

\* if elapsed < 1.0: time.sleep(1.0 - elapsed)
StoredSecondSleep(elapsed) == IF elapsed < Second THEN Second - elapsed ELSE 0

\* for lst in results: outputs[str(lst.url)] = lst
RECURSIVE StoreResults(_, _, _)
StoreResults(out, batch, k) ==
    IF k > Len(batch) THEN out
    ELSE LET lst == results[batch[k]]
             o2 == [u \in DOMAIN out \cup {lst.url} |->
                        IF u = lst.url THEN lst ELSE out[u]]
         IN  StoreResults(o2, batch, k + 1)

\* The assignments the loop above makes: key and the input that produced lst.
StoreLog(batch) ==
    [k \in DOMAIN batch |-> [key |-> results[batch[k]].url, by |-> batch[k]]]

\* ------------------------------------------------ the scrapers at rest
\* Python's None, for an optional page number and an optional URL.
None == 0

\* The locals of fetch_listings and scrape_results_pages before a call.
SearchReset ==
    /\ page = FALSE
    /\ afterSubmit = [read |-> FALSE, captcha |-> FALSE, neue |-> FALSE]
    /\ page_num = 1
    /\ total_pages = None
    /\ all_listings = << >>
    /\ clicks = 0
    /\ stop = "none"
    /\ pagesLog = << >>
    /\ listings = << >>
    /\ browser = "none"
    /\ prepared = [done |-> FALSE, neue |-> FALSE, form |-> FALSE,
                   clicked |-> FALSE]
    /\ shots = << >>
    /\ trace = << >>

SearchIdle ==
    /\ mpc = "off"
    /\ fpc = "idle"
    /\ attempts = 0
    /\ mainSleeps = << >>
    /\ raisedKind = "none"
    /\ firstRaised = "none"
    /\ res = << >>
    /\ min_price = MAIN_MIN_PRICE
    /\ max_price = MAIN_MAX_PRICE
    /\ SearchReset

TableReset ==
    /\ t_listings = {}
    /\ t_clicks = 0
    /\ t_log = << >>
    /\ t_raised = "none"
    /\ t_ret = {}
    /\ t_open = [done |-> FALSE, neue |-> FALSE, form |-> FALSE,
                 clicked |-> FALSE]

TableIdle ==
    /\ t_cut = 1
    /\ t_pc = "off"
    /\ TableReset

ParseIdle ==
    /\ p_pc = "off"
    /\ p_counter = {}
    /\ p_entries = << >>
    /\ p_result = [current_page |-> {}, total_pages |-> {}, listings |-> << >>]

DbIdle ==
    /\ d_pc = "off"
    /\ table = << >>
    /\ d_urls = {}
    /\ d_website = ""
    /\ d_before = << >>
    /\ d_count = 0

RefreshIdle ==
    /\ r_pc = "off"
    /\ r_run = 0
    /\ r_now = [day |-> 0, instant |-> 0]
    /\ r_posted = << >>
    /\ r_rows = << >>
    /\ r_updates = << >>
    /\ r_last = "none"
    /\ r_log = << >>

TransitIdle ==
    /\ x_pc = "off"
    /\ x_pipeline = ""
    /\ x_conns = << >>
    /\ x_best = 0
    /\ x_result = [total_time_min |-> 0, journeys |-> << >>]

DashIdle ==
    /\ sessions = {}
    /\ fetching = << >>
    /\ threads = << >>
    /\ LOG_QUEUE = << >>

SdkIdle ==
    /\ s_pc = "off"
    /\ s_lines = << >>
    /\ success_detected = FALSE
    /\ clean_exit_detected = FALSE
    /\ return_code = 0
    /\ s_outcome = "none"

LaterIdle == RefreshIdle /\ TransitIdle /\ DashIdle /\ SdkIdle

\* -------------------------------------------------------------------- Init
\* URLs of an input of length n: all distinct, or one listing repeats the
\* URL of the first.
UrlPatterns(n) ==
    {[i \in 1..n |-> i]} \cup
    {[i \in 1..n |-> IF i = k THEN 1 ELSE i] : k \in 2..n}

\* What one listing that is off the nominal case looks like, per batcher.
CommutesCases ==
    {<<[latlon |-> "unset", bike |-> "unset", pt |-> "unset"], NominalEnv>>}
    \cup {<<[latlon |-> "set", bike |-> "stored", pt |-> "unset"], NominalEnv>>}
    \cup {<<[latlon |-> "set", bike |-> "unset", pt |-> "stored"], NominalEnv>>}
    \cup {<<[latlon |-> "set", bike |-> "unset", pt |-> "unset"],
            [NominalEnv EXCEPT !.bike = a]>> : a \in BikeAnswers \ {"ok"}}
    \cup {<<[latlon |-> "set", bike |-> "unset", pt |-> "unset"],
            [NominalEnv EXCEPT !.pt = a]>> : a \in TransitAnswers \ {"ok"}}

StoredCases ==
    {<<[latlon |-> "unset", bike |-> "unset", pt |-> "unset"],
       [NominalEnv EXCEPT !.page = a]>> : a \in PageAnswers \ {"ok"}}
    \cup {<<[latlon |-> "unset", bike |-> "unset", pt |-> "unset"],
            [NominalEnv EXCEPT !.geo = "failed"]>>}
    \cup {<<[latlon |-> "unset", bike |-> "unset", pt |-> "unset"],
            [NominalEnv EXCEPT !.bike = a]>> : a \in BikeAnswers \ {"ok"}}
    \cup {<<[latlon |-> "unset", bike |-> "unset", pt |-> "unset"],
            [NominalEnv EXCEPT !.pt = a]>> : a \in TransitAnswers \ {"ok"}}

NominalFields(v) ==
    [latlon |-> IF v = "commutes" THEN "set" ELSE "unset",
     bike |-> "unset", pt |-> "unset"]

Cases(v) == IF v = "commutes" THEN CommutesCases ELSE StoredCases

\* At most one listing of a run is off the nominal case.
OffNominal(n) == {{}} \cup {{i} : i \in 1..n}

Init ==
    /\ variant \in Variants
    /\ maxPerMinute \in Capacities
    /\ \E n \in 0..MaxInputs : \E urls \in UrlPatterns(n) :
       \E off \in OffNominal(n) : \E c \in Cases(variant) :
          /\ (off = {} \/ urls = [i \in 1..n |-> i])
          /\ inputs = [i \in 1..n |->
                LET f == IF i \in off THEN c[1] ELSE NominalFields(variant)
                IN  [url |-> urls[i], src |-> i, latlon |-> f.latlon,
                     bike |-> f.bike, pt |-> f.pt]]
          /\ env = [i \in 1..n |-> IF i \in off THEN c[2] ELSE NominalEnv]
          /\ status = [i \in 1..n |-> "idle"]
          /\ results = [i \in 1..n |-> Raised]
    /\ pc = "loop"
    /\ ci = 1
    /\ si = 1
    /\ now = 0
    /\ minuteStart = 0
    /\ secStart = 0
    /\ outputs = << >>
    /\ returned = << >>
    /\ opStart = << >>
    /\ chunkStart = << >>
    /\ chunkElapsed = << >>
    /\ chunkSleep = << >>
    /\ sleeps = << >>
    /\ writes = << >>
    /\ site = << >>
    /\ SearchIdle
    /\ TableIdle
    /\ ParseIdle
    /\ DbIdle
    /\ LaterIdle

\* ----------------------------------------------------------------- actions
hist == <<opStart, chunkStart, chunkElapsed, chunkSleep, sleeps>>
params == <<variant, maxPerMinute, inputs, env>>

\* executor.map submits the whole batch; the pool starts as many calls as it
\* has workers, the rest wait in its queue.
Submit(batch) ==
    LET size == PoolSize(variant, Len(batch))
        run == {batch[k] : k \in {k \in DOMAIN batch : k <= size}}
        rest == Range(batch) \ run
    IN  /\ status' = [i \in DOMAIN status |->
                        IF i \in run THEN "running"
                        ELSE IF i \in rest THEN "queued" ELSE status[i]]
        /\ opStart' = [i \in DOMAIN opStart \cup run |->
                        IF i \in run THEN now ELSE opStart[i]]

\* batch_fetch_commutes, lines 39-43: the next minute batch begins.
CommutesBeginMinute ==
    /\ variant = "commutes"
    /\ pc = "loop"
    /\ ci <= Len(chunks)
    /\ minuteStart' = now
    /\ chunkStart' = Append(chunkStart, now)
    /\ Submit(minute_batch)
    /\ pc' = "work"
    /\ UNCHANGED <<others, writes, params, ci, si, now, secStart, results, outputs, returned,
                   chunkElapsed, chunkSleep, sleeps>>

\* A pool thread finishes its call after d ticks and takes the next queued one.
WorkerFinish(j, d) ==
    /\ pc \in {"work", "raising"}
    /\ status[j] = "running"
    /\ now' = now + d
    /\ LET r == Worker(variant, inputs[j], env[j])
           queued == {i \in DOMAIN status : status[i] = "queued"}
           next == IF queued = {} THEN {}
                   ELSE {CHOOSE i \in queued : \A q \in queued : i <= q}
       IN  /\ results' = [results EXCEPT ![j] = r]
           /\ status' = [i \in DOMAIN status |->
                           IF i = j THEN (IF r = Raised THEN "raised" ELSE "done")
                           ELSE IF i \in next THEN "running" ELSE status[i]]
           /\ opStart' = [i \in DOMAIN opStart \cup next |->
                           IF i \in next THEN now + d ELSE opStart[i]]
    /\ UNCHANGED <<others, writes, params, pc, ci, si, minuteStart, secStart, outputs, returned,
                   chunkStart, chunkElapsed, chunkSleep, sleeps>>

\* The iterator of executor.map reaches a future that raised: the exception
\* surfaces in list(...) and the futures not yet started are cancelled.
MapRaises ==
    /\ pc = "work"
    /\ \E k \in DOMAIN CurrentBatch :
          /\ status[CurrentBatch[k]] = "raised"
          /\ \A m \in 1..(k - 1) : status[CurrentBatch[m]] = "done"
    /\ status' = [i \in DOMAIN status |->
                    IF status[i] = "queued" THEN "cancelled" ELSE status[i]]
    /\ pc' = "raising"
    /\ UNCHANGED <<others, writes, params, ci, si, now, minuteStart, secStart, results, outputs,
                   returned, hist>>

\* The with-block waits for the running calls, then the exception leaves the
\* batcher.
Propagate ==
    /\ pc = "raising"
    /\ \A i \in DOMAIN status : status[i] # "running"
    /\ pc' = "raised"
    /\ UNCHANGED <<others, writes, params, ci, si, now, minuteStart, secStart, status, results,
                   outputs, returned, hist>>

\* batch_fetch_commutes, lines 44-51: results are stored, the batcher sleeps.
CommutesEndMinute ==
    /\ variant = "commutes"
    /\ pc = "work"
    /\ BatchDone(minute_batch)
    /\ outputs' = StoreResults(outputs, minute_batch, 1)
    /\ writes' = writes \o StoreLog(minute_batch)
    /\ LET elapsed == now - minuteStart
           t == CommutesSleep(elapsed, ci - 1, Len(chunks))
       IN  /\ now' = now + t
           /\ chunkElapsed' = Append(chunkElapsed, elapsed)
           /\ chunkSleep' = Append(chunkSleep, t)
           /\ sleeps' = IF t > 0
                        THEN Append(sleeps, [kind |-> "minute", chunk |-> ci,
                                             after |-> minute_batch[Len(minute_batch)],
                                             ticks |-> t])
                        ELSE sleeps
    /\ ci' = ci + 1
    /\ pc' = "loop"
    /\ UNCHANGED <<others, params, si, minuteStart, secStart, status, results, returned,
                   opStart, chunkStart>>

\* Line 53 of both batchers: return [outputs[str(scr.url)] for scr in inputs]
Return ==
    /\ pc = "loop"
    /\ ci > Len(chunks)
    /\ returned' = [i \in 1..Len(inputs) |-> outputs[inputs[i].url]]
    /\ pc' = "done"
    /\ UNCHANGED <<others, writes, params, ci, si, now, minuteStart, secStart, status, results,
                   outputs, hist>>

\* batch_create_listing_stored, lines 32-34: the next minute batch begins.
StoredBeginMinute ==
    /\ variant = "stored"
    /\ pc = "loop"
    /\ ci <= Len(chunks)
    /\ minuteStart' = now
    /\ chunkStart' = Append(chunkStart, now)
    /\ si' = 1
    /\ pc' = "sec"
    /\ UNCHANGED <<others, writes, params, ci, now, secStart, status, results, outputs, returned,
                   opStart, chunkElapsed, chunkSleep, sleeps>>

\* Lines 36-41: the next second batch gets a pool of its own size.
StoredBeginSecond ==
    /\ variant = "stored"
    /\ pc = "sec"
    /\ si <= Len(sec_batches)
    /\ secStart' = now
    /\ Submit(sec_batch)
    /\ pc' = "work"
    /\ UNCHANGED <<others, writes, params, ci, si, now, minuteStart, results, outputs, returned,
                   chunkStart, chunkElapsed, chunkSleep, sleeps>>

\* Lines 42-47: results are stored, the second batch is throttled to a second.
StoredEndSecond ==
    /\ variant = "stored"
    /\ pc = "work"
    /\ BatchDone(sec_batch)
    /\ outputs' = StoreResults(outputs, sec_batch, 1)
    /\ writes' = writes \o StoreLog(sec_batch)
    /\ LET elapsed == now - secStart
           t == StoredSecondSleep(elapsed)
       IN  /\ now' = now + t
           /\ sleeps' = IF t > 0
                        THEN Append(sleeps, [kind |-> "second", chunk |-> ci,
                                             after |-> sec_batch[Len(sec_batch)],
                                             ticks |-> t])
                        ELSE sleeps
    /\ si' = si + 1
    /\ pc' = "sec"
    /\ UNCHANGED <<others, params, ci, minuteStart, secStart, status, results, returned,
                   opStart, chunkStart, chunkElapsed, chunkSleep>>

\* Lines 49-51: the minute batch is throttled to a minute.
StoredEndMinute ==
    /\ variant = "stored"
    /\ pc = "sec"
    /\ si > Len(sec_batches)
    /\ LET elapsed == now - minuteStart
           t == StoredMinuteSleep(elapsed)
       IN  /\ now' = now + t
           /\ chunkElapsed' = Append(chunkElapsed, elapsed)
           /\ chunkSleep' = Append(chunkSleep, t)
           /\ sleeps' = IF t > 0
                        THEN Append(sleeps, [kind |-> "minute", chunk |-> ci,
                                             after |-> minute_batch[Len(minute_batch)],
                                             ticks |-> t])
                        ELSE sleeps
    /\ ci' = ci + 1
    /\ pc' = "loop"
    /\ UNCHANGED <<others, writes, params, si, minuteStart, secStart, status, results, outputs,
                   returned, opStart, chunkStart>>

NextCommutes ==
    \/ CommutesBeginMinute
    \/ CommutesEndMinute

NextStored ==
    \/ StoredBeginMinute
    \/ StoredBeginSecond
    \/ StoredEndSecond
    \/ StoredEndMinute

NextPool ==
    \/ \E j \in DOMAIN status : \E d \in Deltas : WorkerFinish(j, d)
    \/ MapRaises
    \/ Propagate
    \/ Return

Next == NextCommutes \/ NextStored \/ NextPool

Spec == Init /\ [][Next]_vars

\* ================================================================== claims
Finished == pc \in {"done", "raised"}
NumChunks == Len(chunks)
\* The minute batch the i-th input belongs to: consecutive batches of
\* max_requests_per_minute inputs.
ChunkOf(i) == ((i - 1) \div maxPerMinute) + 1
Started == DOMAIN opStart
InFlight == {i \in DOMAIN status : status[i] = "running"}
StartsIn(lo, hi) == {j \in Started : lo <= opStart[j] /\ opStart[j] < hi}
GeoFailed(i) ==
    IF variant = "commutes" THEN inputs[i].latlon = "unset"
    ELSE env[i].geo = "failed"

RECURSIVE TotalTicks(_, _)
TotalTicks(s, k) == IF k > Len(s) THEN 0 ELSE s[k].ticks + TotalTicks(s, k + 1)

\* C1: whenever a batcher run has ended, whatever order the workers finished
\* in and whichever enrichment calls failed, it has returned a sequence of the
\* input's length whose i-th element carries the URL of the i-th input.
C1_ReturnsRecordPerInput ==
    Finished =>
        /\ pc = "done"
        /\ Len(returned) = Len(inputs)
        /\ \A i \in 1..Len(inputs) : returned[i].url = inputs[i].url

\* C2: a run with a listing whose geocoding failed still ends by returning
\* one record per input in input order; the failed listing has coordinates
\* and commutes unset, every other listing is populated.
C2_GeocodeFailureTolerated ==
    (Finished /\ \E i \in 1..Len(inputs) : GeoFailed(i)) =>
        /\ pc = "done"
        /\ Len(returned) = Len(inputs)
        /\ \A i \in 1..Len(inputs) :
              /\ returned[i].url = inputs[i].url
              /\ IF GeoFailed(i)
                 THEN /\ returned[i].latlon = "unset"
                      /\ returned[i].bike = "unset"
                      /\ returned[i].pt = "unset"
                 ELSE /\ returned[i].latlon = "set"
                      /\ returned[i].bike # "unset"
                      /\ returned[i].pt # "unset"

\* C3: a failed bike-routing or transit call of one listing never raises out
\* of its worker and never aborts the batch of batch_fetch_commutes.
C3_CommuteFailureIsolated ==
    variant = "commutes" =>
        /\ \A i \in DOMAIN status :
              (inputs[i].latlon = "set"
                 /\ (env[i].bike # "ok" \/ env[i].pt # "ok"))
              => status[i] # "raised"
        /\ (\A i \in DOMAIN status : inputs[i].latlon = "set")
              => pc \notin {"raising", "raised"}

\* C4 as stated: every rolling 60-second interval holds the starts of at most
\* max_requests_per_minute worker calls (it is enough to look at the
\* intervals that begin with a start).
C4_RollingWindow ==
    \A i \in Started :
        Cardinality(StartsIn(opStart[i], opStart[i] + Window)) <= maxPerMinute

\* C4 as amended: every 60-second interval that begins at the start of a
\* minute batch holds the starts of at most max_requests_per_minute worker
\* calls.
C4_WindowFromChunkStart ==
    \A k \in DOMAIN chunkStart :
        Cardinality(StartsIn(chunkStart[k], chunkStart[k] + Window)) <= maxPerMinute

C4_Witness ==
    /\ pc = "done"
    /\ Len(chunkStart) >= 2
    /\ \E j \in Started : opStart[j] > chunkStart[ChunkOf(j)]

\* C5: the inputs are worked in consecutive chunks of at most
\* max_requests_per_minute items, each worker call starting inside the window
\* of its own chunk, and a chunk begins no earlier than 60 seconds after the
\* previous chunk began.
C5_ChunkSpacing ==
    /\ Len(chunkStart) * maxPerMinute < Len(inputs) + maxPerMinute
    /\ \A i \in Started :
          /\ ChunkOf(i) \in DOMAIN chunkStart
          /\ opStart[i] >= chunkStart[ChunkOf(i)]
          /\ (ChunkOf(i) + 1) \in DOMAIN chunkStart
                => opStart[i] < chunkStart[ChunkOf(i) + 1]
    /\ \A k \in DOMAIN chunkStart :
          (k + 1) \in DOMAIN chunkStart
             => chunkStart[k + 1] >= chunkStart[k] + Window

C5_Witness ==
    /\ variant = "commutes"
    /\ Len(chunkStart) >= 3
    /\ chunkElapsed[1] < Window
    /\ chunkElapsed[2] >= Window

\* C6: no sleep is performed once the last input's chunk has finished its
\* work, in either batcher.
C6_NoTrailingSleep ==
    \A k \in DOMAIN sleeps : sleeps[k].after < Len(inputs)

\* C7 as stated: batch_fetch_commutes sleeps the remainder of the window
\* after every chunk whose work took less than the window, and does not sleep
\* after a chunk that took the window or longer.
C7_SleepsRemainderEveryChunk ==
    variant = "commutes" =>
        \A k \in DOMAIN chunkSleep :
            chunkSleep[k] = (IF chunkElapsed[k] < Window
                             THEN Window - chunkElapsed[k] ELSE 0)

\* C7 as amended: the same for every chunk but the last; the next chunk then
\* starts max(window, work) after the chunk began, so an overrun starts the
\* next chunk at once and shortens no later window.
C7_SleepsRemainderNonFinal ==
    variant = "commutes" =>
        \A k \in DOMAIN chunkSleep :
            /\ k < NumChunks =>
                  chunkSleep[k] = (IF chunkElapsed[k] < Window
                                   THEN Window - chunkElapsed[k] ELSE 0)
            /\ (k + 1) \in DOMAIN chunkStart =>
                  chunkStart[k + 1] = chunkStart[k] + Max(chunkElapsed[k], Window)

C7_Witness ==
    /\ variant = "commutes"
    /\ Len(chunkStart) >= 3
    /\ chunkElapsed[1] >= Window
    /\ chunkSleep[1] = 0
    /\ chunkElapsed[2] < Window
    /\ chunkSleep[2] = Window - chunkElapsed[2]

C8_Case ==
    /\ variant = "commutes"
    /\ maxPerMinute = 3
    /\ Len(inputs) = 7
    /\ pc = "done"

\* C8 as stated: capacity 3, 7 operations: the run takes at least one and at
\* most two windows of wall-clock time and never waits a third time.
C8_ElapsedWithinTwoWindows ==
    C8_Case => /\ now >= Window
               /\ now <= 2 * Window
               /\ Len(sleeps) <= 2

\* C8 as amended: capacity 3, 7 operations: the run waits at most twice, for
\* at most two windows in total, and takes at least two windows of wall-clock
\* time (the work of the last chunk comes on top).
C8_AtMostTwoWaits ==
    C8_Case => /\ now >= 2 * Window
               /\ Len(sleeps) <= 2
               /\ TotalTicks(sleeps, 1) <= 2 * Window

C8_Witness ==
    /\ C8_Case
    /\ Len(sleeps) = 2
    /\ now > 2 * Window

\* C9: a worker call of a later chunk has started only if every worker call
\* of the earlier chunks has completed.
C9_ChunksDoNotOverlap ==
    \A i \in DOMAIN status : \A j \in Started :
        ChunkOf(i) < ChunkOf(j) => status[i] = "done"

\* In the second chunk a later call has completed before an earlier one.
C9_Witness ==
    /\ variant = "commutes"
    /\ \E i \in Started : \E j \in Started :
          /\ ChunkOf(i) = 2
          /\ ChunkOf(j) = 2
          /\ i < j
          /\ status[i] = "running"
          /\ status[j] = "done"

\* C10: the number of worker calls in flight never exceeds the pool size: 4
\* in batch_fetch_commutes, max_requests_per_second in
\* batch_create_listing_stored.
C10_InFlightBounded ==
    Cardinality(InFlight) <=
        (IF variant = "commutes" THEN MAX_WORKERS ELSE MAX_REQUESTS_PER_SECOND)

\* A chunk larger than the pool: the pool is full and a call waits.
C10_Witness ==
    /\ variant = "commutes"
    /\ Cardinality(InFlight) = MAX_WORKERS
    /\ \E i \in DOMAIN status : status[i] = "queued"

\* C11: during one batcher run every key of the result map outputs is written
\* exactly once, by the result of one listing, and no key is overwritten,
\* whatever the input sequence (one that repeats a URL included).
C11_KeyWrittenOnce ==
    /\ \A a, b \in DOMAIN writes : a # b => writes[a].key # writes[b].key
    /\ pc = "done" =>
          \A i \in DOMAIN inputs :
             \E a \in DOMAIN writes : writes[a].key = inputs[i].url

\* =========================================================================
\* The search scraper: main.py runs fetch_listings (fetch.py), which drives
\* the browser through the search form and the result pages.
\* =========================================================================

\* The batcher variables while another program runs.
BatcherIdle ==
    /\ variant = "commutes"
    /\ maxPerMinute = 3
    /\ inputs = << >>
    /\ env = << >>
    /\ pc = "off"
    /\ ci = 1
    /\ si = 1
    /\ now = 0
    /\ minuteStart = 0
    /\ secStart = 0
    /\ status = << >>
    /\ results = << >>
    /\ outputs = << >>
    /\ returned = << >>
    /\ opStart = << >>
    /\ chunkStart = << >>
    /\ chunkElapsed = << >>
    /\ chunkSleep = << >>
    /\ sleeps = << >>
    /\ writes = << >>

\* The URLs lo, lo+1, .., hi in page order.
Urls(lo, hi) == [k \in 1..(hi - lo + 1) |-> lo + k - 1]

\* Three pages of ExamplePerPage listings; the first two listings of page 3
\* are the last two of page 2.
ExampleSite ==
    <<Urls(1, ExamplePerPage),
      Urls(ExamplePerPage + 1, 2 * ExamplePerPage),
      Urls(2 * ExamplePerPage - 1, 3 * ExamplePerPage - 2)>>

\* Result sets the site may hold: a URL on two pages, a single page, entries
\* without a link and a URL twice on one page, an empty result, the example.
Sites ==
    {<< <<1, 2>>, <<2, 3>> >>,
     << <<1>> >>,
     << <<None, 1>>, <<None>>, <<2, 2>> >>,
     << << >> >>,
     ExampleSite}

\* What a Playwright call can do besides succeed.
PlaywrightFailures == {"PlaywrightTimeoutError", "PlaywrightError"}
\* What a step of fetch_listings can do: succeed, fail in Playwright, or raise
\* an exception no except clause names.
Outcomes == {"ok"} \cup PlaywrightFailures \cup {"Exception"}
NextStates == {"invisible", "disabled", "enabled", "timeout", "error"}

\* Lines 338-377: the break taken for each state of the next control.
NextStop ==
    [invisible |-> "next_invisible", disabled |-> "next_disabled",
     enabled |-> "none", timeout |-> "next_timeout", error |-> "next_error"]

\* parse_wgzimmer_search_results on the content of the s-th page of the site;
\* total is the total the pagination indicator displays, None when the page
\* has no indicator.
parse_wgzimmer_search_results(s, total) ==
    [current_page |-> IF total = None THEN None ELSE s,
     total_pages |-> total,
     listings |-> site[s]]

\* submit_search_and_verify, lines 205-226, with the checks swapped.
Verify_AffordanceFirst(captcha, neue) ==
    IF ~neue THEN "ValueError"
    ELSE IF captcha THEN "CapthaError" ELSE "ok"

\* submit_search_and_verify, lines 205-226: the CAPTCHA marker, then the
\* "Neue Suche" button.
Verify(captcha, neue) ==
    IF captcha THEN "CapthaError"
    ELSE IF ~neue THEN "ValueError" ELSE "ok"

\* The except clauses of fetch_listings, lines 439-453: every exception is
\* raised again; the PlaywrightError clause first calls take_screenshot
\* without its log_dir argument, which raises TypeError.
fetch_listings_except(kind, pageSet) ==
    IF kind = "PlaywrightError" /\ pageSet THEN "TypeError" ELSE kind

\* all_listings.extend(listings) with the list replaced.
Collect_LastPageOnly(all, new) == new

\* Line 312: all_listings.extend(listings)
Collect(all, new) == all \o new

\* Lines 318-331 with a loop that goes on past the last page.
ReachedLastPage_Beyond(pn, total, cur, tot) ==
    \/ total # None /\ pn > total
    \/ cur # None /\ tot # None /\ cur > tot

\* Lines 318-331: the two last-page conditions.
ReachedLastPage(pn, total, cur, tot) ==
    \/ total # None /\ pn >= total
    \/ cur # None /\ tot # None /\ cur >= tot

\* Lines 381-387 without the seen_urls test.
unique_listings_KeepAll(all, k, seen, out) == all

\* Lines 381-387: the de-duplication loop over all_listings from index k on.
RECURSIVE unique_listings(_, _, _, _)
unique_listings(all, k, seen, out) ==
    IF k > Len(all) THEN out
    ELSE IF all[k] \notin seen
         THEN unique_listings(all, k + 1,
                              IF all[k] # None THEN seen \cup {all[k]} ELSE seen,
                              Append(out, all[k]))
         ELSE unique_listings(all, k + 1, seen, out)

\* main.py, lines 31-36, retrying after a CAPTCHA on every attempt.
MainRetries_EveryAttempt(attempt, kind) == kind = "CapthaError"

\* main.py, lines 31-36: only the first call stands in the try block, and
\* only CapthaError is caught.
MainRetries(attempt, kind) == attempt = 1 /\ kind = "CapthaError"

\* fetch.py, lines 406 and 408: p in range(200, 1550, 50), without the step.
ValidPrice_AnyInRange(p) == PRICE_START <= p /\ p < PRICE_STOP

\* fetch.py, lines 406 and 408: p in range(200, 1550, 50).
ValidPrice(p) ==
    /\ PRICE_START <= p
    /\ p < PRICE_STOP
    /\ (p - PRICE_START) % PRICE_STEP = 0

\* Lines 406-409: the two checks at the head of fetch_listings.
Validate(lo, hi) ==
    IF ~ValidPrice(lo) THEN "ValueError"
    ELSE IF ~ValidPrice(hi) THEN "ValueError" ELSE "ok"

\* Prices around both ends of the accepted range, on and off the step.
Prices == {PRICE_START - PRICE_STEP, PRICE_START + PRICE_STEP \div 2,
           PRICE_START + PRICE_STEP, PRICE_STOP - PRICE_STEP,
           PRICE_STOP - PRICE_STEP \div 2, PRICE_STOP}

\* A statement of the try block that does not raise, with every statement
\* taken as not raising.
Proceeds_Always(o) == TRUE

\* Lines 416-437: the next statement of the try block runs when this one did
\* not raise.
Proceeds(o) == o = "ok"

\* navigate_and_prepare_search, lines 97-112:
\*   if neue_suche_button.is_visible() and not form_is_visible
ClicksNewSearch(neue, form) == neue /\ ~form

\* The screenshot a step requests itself between a failure and raising it:
\* the except clauses of lines 114-121, 163-170 and 228-237, and line 210.
StepErrorShot(step, kind) ==
    IF step = "navigate" /\ kind = "PlaywrightTimeoutError"
    THEN <<"error_navigation_timeout">>
    ELSE IF step = "navigate" /\ kind = "PlaywrightError"
    THEN <<"error_navigation_generic">>
    ELSE IF step = "fill" /\ kind = "PlaywrightTimeoutError"
    THEN <<"error_form_fill_timeout">>
    ELSE IF step = "fill" /\ kind = "PlaywrightError"
    THEN <<"error_form_fill_generic">>
    ELSE IF step = "submit" /\ kind = "PlaywrightTimeoutError"
    THEN <<"error_submit_timeout">>
    ELSE IF step = "submit" /\ kind = "PlaywrightError"
    THEN <<"error_submit_generic">>
    ELSE IF step = "verify" /\ kind = "CapthaError"
    THEN <<"error_captcha_detected">>
    ELSE << >>

\* The screenshot the except clauses of fetch_listings request, lines
\* 439-453: only the timeout clause requests one; the call of line 447 raises
\* before any screenshot is taken.
FinalErrorShot(kind, pageSet) ==
    IF kind = "PlaywrightTimeoutError" /\ pageSet
    THEN <<"error_timeout_final">>
    ELSE << >>

\* Lines 338-377: the screenshot requested for each state of the next control.
NextShot ==
    [invisible |-> << >>, disabled |-> << >>, enabled |-> << >>,
     timeout |-> <<"warning_next_button_timeout">>,
     error |-> <<"info_next_button_error">>]

SearchInit ==
    /\ mpc = "start"
    /\ fpc = "idle"
    /\ attempts = 0
    /\ mainSleeps = << >>
    /\ raisedKind = "none"
    /\ firstRaised = "none"
    /\ res = << >>
    /\ SearchReset

\* The prices fetch_listings is called with: those of main.py, or one of the
\* two replaced by a price around the ends of the accepted range.
PriceCases ==
    {<<MAIN_MIN_PRICE, MAIN_MAX_PRICE>>}
    \cup {<<p, MAIN_MAX_PRICE>> : p \in Prices}
    \cup {<<MAIN_MIN_PRICE, p>> : p \in Prices}

InitSearch ==
    /\ BatcherIdle
    /\ site \in Sites
    /\ \E c \in PriceCases :
          /\ min_price = c[1]
          /\ max_price = c[2]
          /\ (c = <<MAIN_MIN_PRICE, MAIN_MAX_PRICE>> \/ site = << <<1>> >>)
    /\ SearchInit
    /\ TableIdle
    /\ ParseIdle
    /\ DbIdle
    /\ LaterIdle

scrapeLocals == <<page_num, total_pages, all_listings, clicks, stop, pagesLog,
                  listings>>
mainHist == <<attempts, mainSleeps, firstRaised, res>>
notSearch == <<batcherVars, tableVars, parseVars, dbVars, laterVars,
              min_price, max_price>>

\* An exception of the given kind leaves fetch_listings through its except
\* clauses, lines 439-453, and the with block of line 417, which stops
\* Playwright. entries are the steps run by then, taken the screenshots the
\* failing step requested itself.
FetchListingsRaises(kind, entries, taken) ==
    /\ fpc' = "raised"
    /\ raisedKind' = fetch_listings_except(kind, page')
    /\ firstRaised' = IF attempts = 1
                      THEN fetch_listings_except(kind, page')
                      ELSE firstRaised
    /\ trace' = trace \o entries
    /\ shots' = shots \o taken \o FinalErrorShot(kind, page')
    /\ browser' = IF browser = "open" THEN "closed" ELSE browser

Failed(step, kind) == <<[step |-> step, outcome |-> kind]>>

\* The step completed: the next statement of fetch_listings runs.
StepDone(next, entries, taken) ==
    /\ fpc' = next
    /\ trace' = trace \o entries
    /\ shots' = shots \o taken
    /\ UNCHANGED <<raisedKind, firstRaised>>

\* fetch_listings is entered: the price checks of lines 406-409, which raise
\* outside the try block, then lines 411-415.
CallFetchListings ==
    /\ attempts' = attempts + 1
    /\ page' = FALSE
    /\ browser' = "none"
    /\ shots' = << >>
    /\ prepared' = [done |-> FALSE, neue |-> FALSE, form |-> FALSE,
                    clicked |-> FALSE]
    /\ afterSubmit' = [read |-> FALSE, captcha |-> FALSE, neue |-> FALSE]
    /\ page_num' = 1
    /\ total_pages' = None
    /\ all_listings' = << >>
    /\ clicks' = 0
    /\ stop' = "none"
    /\ pagesLog' = << >>
    /\ listings' = << >>
    /\ IF Proceeds(Validate(min_price, max_price))
       THEN /\ fpc' = "initialize"
            /\ raisedKind' = "none"
            /\ UNCHANGED firstRaised
       ELSE /\ fpc' = "raised"
            /\ raisedKind' = "ValueError"
            /\ firstRaised' = IF attempts = 0 THEN "ValueError" ELSE firstRaised
    /\ trace' = <<[step |-> "validate",
                   outcome |-> Validate(min_price, max_price)]>>

\* main.py, line 32: the first call of fetch_listings.
MainStart ==
    /\ mpc = "start"
    /\ mpc' = "first"
    /\ CallFetchListings
    /\ UNCHANGED <<notSearch, site, mainSleeps, res>>

\* Lines 417-421: sync_playwright, initialize_browser_context and
\* context.new_page().
InitializeBrowser(o) ==
    /\ fpc = "initialize"
    /\ IF Proceeds(o)
       THEN /\ page' = TRUE
            /\ browser' = "open"
            /\ StepDone("navigate", Failed("initialize", o), << >>)
       ELSE /\ page' = FALSE
            /\ FetchListingsRaises(o, Failed("initialize", o), << >>)
    /\ UNCHANGED <<notSearch, site, mpc, attempts, mainSleeps, res, afterSubmit,
                   prepared, scrapeLocals>>

\* Line 423: navigate_and_prepare_search. o is what page.goto does, neue and
\* form what the loaded page shows, o2 what the click on "Neue Suche" does.
NavigateAndPrepareSearch(o, neue, form, o2) ==
    /\ fpc = "navigate"
    /\ UNCHANGED page
    /\ LET click == ClicksNewSearch(neue, form)
           seen == [done |-> TRUE, neue |-> neue, form |-> form,
                    clicked |-> click]
       IN  IF ~Proceeds(o)
           THEN /\ UNCHANGED prepared
                /\ FetchListingsRaises(o, Failed("navigate", o),
                                       StepErrorShot("navigate", o))
           ELSE IF click /\ ~Proceeds(o2)
           THEN /\ prepared' = seen
                /\ FetchListingsRaises(o2, Failed("navigate", o2),
                                       <<"01_initial_page">>
                                          \o StepErrorShot("navigate", o2))
           ELSE /\ prepared' = seen
                /\ StepDone("fill", Failed("navigate", "ok"),
                            IF click
                            THEN <<"01_initial_page",
                                   "01a_navigated_to_new_search">>
                            ELSE <<"01_initial_page">>)
                /\ UNCHANGED browser
    /\ UNCHANGED <<notSearch, site, mpc, attempts, mainSleeps, res, afterSubmit,
                   scrapeLocals>>

\* Lines 424-430: fill_search_form.
FillSearchForm(o) ==
    /\ fpc = "fill"
    /\ UNCHANGED page
    /\ IF Proceeds(o)
       THEN /\ StepDone("submit", Failed("fill", o), <<"02_form_filled">>)
            /\ UNCHANGED browser
       ELSE FetchListingsRaises(o, Failed("fill", o), StepErrorShot("fill", o))
    /\ UNCHANGED <<notSearch, site, mpc, attempts, mainSleeps, res, afterSubmit,
                   prepared, scrapeLocals>>

\* Line 431: submit_search_and_verify. o is what waiting for and clicking the
\* submit button does, captcha and neue what the page shows afterwards.
SubmitSearchAndVerify(o, captcha, neue) ==
    /\ fpc = "submit"
    /\ UNCHANGED page
    /\ IF ~Proceeds(o)
       THEN /\ FetchListingsRaises(o, Failed("submit", o),
                                   StepErrorShot("submit", o))
            /\ UNCHANGED afterSubmit
       ELSE LET verdict == Verify(captcha, neue)
                entries == Failed("submit", o) \o Failed("verify", verdict)
            IN  /\ afterSubmit' = [read |-> TRUE, captcha |-> captcha,
                                   neue |-> neue]
                /\ IF Proceeds(verdict)
                   THEN /\ StepDone("scrape", entries, <<"03_after_submit">>)
                        /\ UNCHANGED browser
                   ELSE FetchListingsRaises(verdict, entries,
                                            <<"03_after_submit">>
                                               \o StepErrorShot("verify", verdict))
    /\ UNCHANGED <<notSearch, site, mpc, attempts, mainSleeps, res, prepared,
                   scrapeLocals>>

\* One iteration of the while loop of scrape_results_pages, lines 249-377, as
\* a record: why the loop ends here ("none" when it goes on), whether the
\* page's listings were collected, the screenshots requested and the new
\* locals.
\*   waitOk    the pagination indicator of page_num showed up in time
\*   contentOk page.content() succeeded
\*   s, total  the page the browser shows and the total it displays
\*   nxt       the state of the next control
LoopBody(waitOk, contentOk, s, total, nxt) ==
    LET parsed == parse_wgzimmer_search_results(s, total)
        tp == IF parsed.total_pages # None THEN parsed.total_pages
              ELSE total_pages
        all == Collect(all_listings, parsed.listings)
        entry == [expected |-> page_num, current |-> parsed.current_page,
                  total |-> parsed.total_pages, shown |-> s]
        unparsed == [expected |-> page_num, current |-> None, total |-> None,
                     shown |-> None]
    IN  IF page_num > 1 /\ ~waitOk
        THEN [stop |-> "wait_timeout", accepted |-> FALSE, entry |-> unparsed,
              total_pages |-> total_pages, all_listings |-> all_listings,
              shots |-> <<"error_page_load_timeout">>]
        ELSE IF ~contentOk
        THEN [stop |-> "content_error", accepted |-> FALSE, entry |-> unparsed,
              total_pages |-> total_pages, all_listings |-> all_listings,
              shots |-> <<"page", "error_get_content">>]
        ELSE IF parsed.current_page # None /\ parsed.current_page # page_num
        THEN [stop |-> "mismatch", accepted |-> FALSE, entry |-> entry,
              total_pages |-> tp, all_listings |-> all_listings,
              shots |-> <<"page", "warning_page_mismatch">>]
        ELSE IF ReachedLastPage(page_num, tp, parsed.current_page,
                                parsed.total_pages)
        THEN [stop |-> "last_page", accepted |-> TRUE, entry |-> entry,
              total_pages |-> tp, all_listings |-> all,
              shots |-> <<"page">>]
        ELSE [stop |-> NextStop[nxt], accepted |-> TRUE, entry |-> entry,
              total_pages |-> tp, all_listings |-> all,
              shots |-> <<"page">> \o NextShot[nxt]]

\* scrape_results_pages: one loop iteration; when the loop ends, the
\* de-duplication of lines 379-393 and the return of fetch_listings, lines
\* 433-437.
ScrapeResultsPages(waitOk, contentOk, s, total, nxt) ==
    /\ fpc = "scrape"
    /\ nxt = "enabled" => Len(pagesLog) + 1 < MaxIter
    /\ LET b == LoopBody(waitOk, contentOk, s, total, nxt)
       IN  /\ pagesLog' = Append(pagesLog,
                                 [expected |-> b.entry.expected,
                                  current |-> b.entry.current,
                                  total |-> b.entry.total,
                                  shown |-> b.entry.shown,
                                  accepted |-> b.accepted])
           /\ total_pages' = b.total_pages
           /\ all_listings' = b.all_listings
           /\ stop' = b.stop
           /\ IF b.stop = "none"
              THEN /\ clicks' = clicks + 1
                   /\ page_num' = page_num + 1
                   /\ shots' = shots \o b.shots
                   /\ UNCHANGED <<fpc, listings, browser>>
              ELSE /\ listings' = unique_listings(b.all_listings, 1, {}, << >>)
                   /\ fpc' = "returned"
                   /\ shots' = shots \o b.shots \o <<"99_final_page_state">>
                   /\ browser' = "closed"
                   /\ UNCHANGED <<clicks, page_num>>
    /\ UNCHANGED <<notSearch, site, mpc, mainHist, raisedKind, page, afterSubmit,
                   prepared, trace>>

\* main.py, lines 32 and 36 to 39: the call returned, res is printed.
MainDone ==
    /\ mpc \in {"first", "second"}
    /\ fpc = "returned"
    /\ res' = listings
    /\ mpc' = "done"
    /\ UNCHANGED <<notSearch, site, fpc, attempts, mainSleeps, raisedKind,
                   firstRaised, page, afterSubmit, prepared, browser, shots,
                   trace, scrapeLocals>>

\* main.py, lines 33-36: CapthaError out of the first call; sleep, call again.
MainRetry ==
    /\ mpc \in {"first", "second"}
    /\ fpc = "raised"
    /\ MainRetries(attempts, raisedKind)
    /\ mainSleeps' = Append(mainSleeps, RETRY_SLEEP_SECONDS)
    /\ mpc' = "second"
    /\ CallFetchListings
    /\ UNCHANGED <<notSearch, site, res>>

\* main.py: any other exception ends the script with a traceback.
MainCrash ==
    /\ mpc \in {"first", "second"}
    /\ fpc = "raised"
    /\ ~MainRetries(attempts, raisedKind)
    /\ mpc' = "crashed"
    /\ UNCHANGED <<notSearch, site, fpc, attempts, mainSleeps, raisedKind,
                   firstRaised, res, page, afterSubmit, prepared, browser,
                   shots, trace, scrapeLocals>>

NextFetchListings ==
    \/ \E o \in Outcomes : InitializeBrowser(o)
    \/ \E o, o2 \in Outcomes : \E neue, form \in BOOLEAN :
          NavigateAndPrepareSearch(o, neue, form, o2)
    \/ \E o \in Outcomes : FillSearchForm(o)
    \/ \E o \in Outcomes : \E captcha, neue \in BOOLEAN :
          SubmitSearchAndVerify(o, captcha, neue)
    \/ \E waitOk, contentOk \in BOOLEAN : \E s \in DOMAIN site :
       \E total \in {None} \cup 1..MaxPages : \E nxt \in NextStates :
          ScrapeResultsPages(waitOk, contentOk, s, total, nxt)

NextMain ==
    \/ MainStart
    \/ MainDone
    \/ MainRetry
    \/ MainCrash

NextSearch == NextFetchListings \/ NextMain

SpecSearch == InitSearch /\ [][NextSearch]_vars

\* =========================================================================
\* The table scraper: fetch_table and extract_listings of
\* src/wg_zimmer_ch/fetch_table.py.
\* =========================================================================

\* What last_aufgegeben_date makes of the page, against last_update_date:
\* no date on the page, a date before last_update_date, a date not before
\* it, a text that is no date.
Dates == {"none", "older", "newer", "bad"}

\* parse_wgzimmer_search_results of fetch_table.py on the content of the
\* s-th page of the site: the same pagination parse, the links as listings.
parse_table(s, total) ==
    [current |-> IF total = None THEN None ELSE s,
     total |-> total,
     links |-> site[s]]

\* Line 233, current_date < last_update_date, for the last entry of page s:
\* the listings come newest first.
DateOf(s) == IF s >= t_cut THEN "older" ELSE "newer"

\* any((current, total, links)), line 211.
OnTargetPage(s, total) ==
    LET p == parse_table(s, total)
    IN  p.current # None \/ p.total # None \/ p.links # << >>

InitTable ==
    /\ BatcherIdle
    /\ site \in Sites
    /\ SearchIdle
    /\ t_pc = "open"
    /\ t_cut \in 1..(Len(site) + 1)
    /\ TableReset
    /\ ParseIdle
    /\ DbIdle
    /\ LaterIdle

notTable == <<batcherVars, site, searchVars, parseVars, dbVars, laterVars>>

\* fetch_table, lines 274-275: the exception is logged, None is returned.
FetchTableFails(kind) ==
    /\ t_pc' = "returned_none"
    /\ t_raised' = kind

\* open_listings_page, line 185:
\*   if (None, None, []) != parse_wgzimmer_search_results(page.content())
ClicksNeueSuche(landed, s, total) ==
    /\ landed = "results"
    /\ parse_table(s, total) # [current |-> None, total |-> None,
                                links |-> << >>]

\* What bounding_box() of a locator that matches nothing ends in: the wait
\* for the element times out, or None is subscripted.
NoSuchElement == {"PlaywrightTimeoutError", "TypeError"}

\* fetch_table, lines 246-269: the browser is launched, open_listings_page.
\*   o       what launching the browser and page.goto do
\*   landed  the page goto lands on: the search form, or the results of a
\*           saved search, with page s of the site and the total it displays
\*   m       what the click on the region shortcut does without a form
OpenListingsPage(o, landed, s, total, m) ==
    /\ t_pc = "open"
    /\ IF o # "ok"
       THEN FetchTableFails(o) /\ UNCHANGED t_open
       ELSE LET click == ClicksNeueSuche(landed, s, total)
            IN  /\ t_open' = [done |-> TRUE, neue |-> landed = "results",
                              form |-> landed = "form", clicked |-> click]
                /\ IF landed = "form" \/ click
                   THEN t_pc' = "extract" /\ UNCHANGED t_raised
                   ELSE FetchTableFails(m)
    /\ UNCHANGED <<notTable, t_listings, t_clicks, t_log, t_ret, t_cut>>

\* extract_listings, lines 210-222: the target-page test and the two clicks on
\* the sort control.
ExtractListingsEnter(s, total, o) ==
    /\ t_pc = "extract"
    /\ IF ~OnTargetPage(s, total) THEN FetchTableFails("RuntimeError")
       ELSE IF o # "ok" THEN FetchTableFails(o)
       ELSE t_pc' = "loop" /\ UNCHANGED t_raised
    /\ UNCHANGED <<notTable, t_listings, t_clicks, t_log, t_ret, t_open, t_cut>>

\* One iteration of the while loop of extract_listings, lines 224-240, as a
\* record: how it ends ("next" when the loop goes on, "break", or the
\* exception raised) and whether the page's links joined the set.
TableLoopBody(s, total, date, clickOk) ==
    LET p == parse_table(s, total)
    IN  IF date = "bad"
        THEN [end |-> "ValueError", accepted |-> FALSE]
        ELSE IF date = "none"
        THEN [end |-> "TypeError", accepted |-> TRUE]
        ELSE IF date = "older"
        THEN [end |-> "break", accepted |-> TRUE]
        ELSE IF p.current = None
        THEN [end |-> "TypeError", accepted |-> TRUE]
        ELSE IF p.current >= p.total
        THEN [end |-> "break", accepted |-> TRUE]
        ELSE IF ~clickOk
        THEN [end |-> "PlaywrightTimeoutError", accepted |-> TRUE]
        ELSE [end |-> "next", accepted |-> TRUE]

\* extract_listings: one loop iteration; on break the return of lines 241 and
\* 271-273, on an exception the except clause of fetch_table.
ExtractListingsPage(s, total, date, clickOk) ==
    /\ t_pc = "loop"
    /\ site[s] = << >> => date = "none"
    /\ date \in {"older", "newer"} => date = DateOf(s)
    /\ (clickOk /\ date = "newer" /\ total # None /\ s < total)
          => t_clicks + 1 < MaxIter
    /\ LET b == TableLoopBody(s, total, date, clickOk)
           p == parse_table(s, total)
           new == IF b.accepted THEN t_listings \cup Range(p.links)
                  ELSE t_listings
       IN  /\ t_log' = Append(t_log,
                              [expected |-> t_clicks + 1, current |-> p.current,
                               total |-> p.total, shown |-> s,
                               accepted |-> b.accepted, before |-> t_listings,
                               date |-> date])
           /\ t_listings' = new
           /\ IF b.end = "next"
              THEN /\ t_clicks' = t_clicks + 1
                   /\ UNCHANGED <<t_pc, t_raised, t_ret>>
              ELSE IF b.end = "break"
              THEN /\ t_pc' = "returned"
                   /\ t_ret' = new
                   /\ UNCHANGED <<t_clicks, t_raised>>
              ELSE /\ FetchTableFails(b.end)
                   /\ UNCHANGED <<t_clicks, t_ret>>
    /\ UNCHANGED <<notTable, t_open, t_cut>>

NextTable ==
    \/ \E o \in Outcomes : \E landed \in {"form", "results"} :
       \E s \in DOMAIN site : \E total \in {None} \cup 1..MaxPages :
       \E m \in NoSuchElement : OpenListingsPage(o, landed, s, total, m)
    \/ \E s \in DOMAIN site : \E total \in {None} \cup 1..MaxPages :
       \E o \in Outcomes : ExtractListingsEnter(s, total, o)
    \/ \E s \in DOMAIN site : \E total \in {None} \cup 1..MaxPages :
       \E date \in Dates : \E clickOk \in BOOLEAN :
          ExtractListingsPage(s, total, date, clickOk)

SpecTable == InitTable /\ [][NextTable]_vars

\* =========================================================================
\* The results-page parser: parse_wgzimmer_search_results of parse.py and of
\* src/wg_zimmer_ch/fetch_table.py.
\* =========================================================================

\* The text of the counter span, as tokens.
Alphabet == {"Seite", " ", "1", "2", "/", "x"}
Digits == {"1", "2"}
DigitValue == [d \in Digits |-> CASE d = "1" -> 1 [] d = "2" -> 2]

Texts(n) == UNION {[1..k -> Alphabet] : k \in 0..n}

\* \s* from position i on: the first position that holds no whitespace.
RECURSIVE SkipSpaces(_, _)
SkipSpaces(t, i) ==
    IF i <= Len(t) /\ t[i] = " " THEN SkipSpaces(t, i + 1) ELSE i

\* \d+ with a single digit: \d.
DigitsEnd_OneDigit(t, i) ==
    IF i <= Len(t) /\ t[i] \in Digits THEN i + 1 ELSE i

\* \d+ from position i on, greedy: the first position that holds no digit.
RECURSIVE DigitsEnd(_, _)
DigitsEnd(t, i) ==
    IF i <= Len(t) /\ t[i] \in Digits THEN DigitsEnd(t, i + 1) ELSE i

\* int() of the digits t[i], .., t[j-1].
RECURSIVE ToInt(_, _, _, _)
ToInt(t, i, j, acc) ==
    IF i >= j THEN acc ELSE ToInt(t, i + 1, j, 10 * acc + DigitValue[t[i]])

\* The regular expression Seite\s*(\d+)/(\d+) tried at position i: the two
\* groups as integers, or nothing.
MatchAt(t, i) ==
    IF t[i] # "Seite" THEN {}
    ELSE LET a == SkipSpaces(t, i + 1)
             b == DigitsEnd(t, a)
             c == DigitsEnd(t, b + 1)
         IN  IF b > a /\ b <= Len(t) /\ t[b] = "/" /\ c > b + 1
             THEN {<<ToInt(t, a, b, 0), ToInt(t, b + 1, c, 0)>>}
             ELSE {}

\* re.search: the match at the leftmost position that has one.
RECURSIVE re_search(_, _)
re_search(t, i) ==
    IF i > Len(t) THEN {}
    ELSE IF MatchAt(t, i) # {} THEN MatchAt(t, i)
    ELSE re_search(t, i + 1)

\* Lines 88-104 of parse.py, 68-84 of fetch_table.py: counter is the set of
\* texts of the first "div.skip span.counter" (empty when the page has none).
\* An absent page number is the empty set, a present one a singleton.
ParseCounter(counter) ==
    LET match == IF counter = {} THEN {}
                 ELSE re_search(CHOOSE t \in counter : TRUE, 1)
    IN  [current_page |-> {m[1] : m \in match},
         total_pages |-> {m[2] : m \in match}]

\* ---- the entries of the result list
\* What an entry holds for its link: no <a> at all, an <a> without href, an
\* empty href, a site-relative href, an absolute http URL, another scheme.
Links == {"none", "nohref", "empty", "relative", "absolute", "javascript"}
Images == {"none", "nosrc", "loading", "relative", "absolute"}
\* Texts of div.create-date strong and span.from-date strong: none, a date,
\* no date.
DateTexts == {<< >>, <<18, 5, 2025>>, <<31, 13, 2025>>}
\* Texts of span.cost strong: none, "850", "1'200", "auf Anfrage".
PriceTexts == {<< >>, <<"8", "5", "0">>, <<"1", "'", "2", "0", "0">>, <<"a">>}

BASE_HOST == "www.wgzimmer.ch"

NominalEntry ==
    [link |-> "relative", aufgegeben |-> <<18, 5, 2025>>,
     frei |-> <<18, 5, 2025>>, miete |-> <<"8", "5", "0">>, adresse |-> TRUE,
     img |-> "absolute"]

\* The entries that differ from the nominal one in at most one element.
Entries ==
    {NominalEntry}
    \cup {[NominalEntry EXCEPT !.link = l] : l \in Links}
    \cup {[NominalEntry EXCEPT !.aufgegeben = d] : d \in DateTexts}
    \cup {[NominalEntry EXCEPT !.frei = d] : d \in DateTexts}
    \cup {[NominalEntry EXCEPT !.miete = m] : m \in PriceTexts}
    \cup {[NominalEntry EXCEPT !.adresse = a] : a \in BOOLEAN}
    \cup {[NominalEntry EXCEPT !.img = g] : g \in Images}

EntryLists(n) == UNION {[1..k -> Entries] : k \in 0..n}

\* link_tag["href"] on a tag without the attribute.
RaisesKeyError(link) == link = "nohref"

\* link_tag["href"] if link_tag else None, then urljoin(base_url, href), for
\* the k-th entry: the href is the entry's own path, or an absolute URL.
\* The empty set is None.
ExtractUrl(link, k) ==
    CASE link = "none" -> {}
      [] link = "nohref" -> {}
      [] link = "empty" -> {}
      [] link = "relative" ->
            {[scheme |-> "https", host |-> BASE_HOST, path |-> k]}
      [] link = "absolute" ->
            {[scheme |-> "https", host |-> "img.wgzimmer.ch", path |-> k]}
      [] link = "javascript" ->
            {[scheme |-> "javascript", host |-> "", path |-> k]}

\* Lines 148-158: the src of span.thumb img, None for the loading image; a
\* site-relative src stays relative.
ExtractImg(img, k) ==
    CASE img = "none" -> {}
      [] img = "nosrc" -> {}
      [] img = "loading" -> {}
      [] img = "relative" -> {[scheme |-> "", host |-> "", path |-> k]}
      [] img = "absolute" ->
            {[scheme |-> "https", host |-> "img.wgzimmer.ch", path |-> k]}

\* parse_date, lines 39-50: strptime(text, "%d.%m.%Y"), None on ValueError.
parse_date(text) ==
    IF /\ Len(text) = 3
       /\ text[1] \in 1..31
       /\ text[2] \in 1..12
    THEN {[year |-> text[3], month |-> text[2], day |-> text[1]]}
    ELSE {}

\* float_str.replace(".", "").replace("'", "")
RECURSIVE RemoveSeparators(_)
RemoveSeparators(text) ==
    IF text = << >> THEN << >>
    ELSE IF Head(text) \in {".", "'"} THEN RemoveSeparators(Tail(text))
    ELSE <<Head(text)>> \o RemoveSeparators(Tail(text))

PriceDigits == [d \in {"0", "1", "2", "5", "8"} |->
                   CASE d = "0" -> 0 [] d = "1" -> 1 [] d = "2" -> 2
                     [] d = "5" -> 5 [] d = "8" -> 8]

RECURSIVE ToNumber(_, _)
ToNumber(text, acc) ==
    IF text = << >> THEN acc
    ELSE ToNumber(Tail(text), 10 * acc + PriceDigits[Head(text)])

\* parse_float, lines 53-63: float() of the cleaned text, None on ValueError.
parse_float(text) ==
    LET cleaned == RemoveSeparators(text)
    IN  IF cleaned # << >> /\ \A i \in DOMAIN cleaned : cleaned[i] \in DOMAIN PriceDigits
        THEN {ToNumber(cleaned, 0)}
        ELSE {}

\* pydantic's HttpUrl: an absolute URL with scheme http or https.
IsHttpUrl(u) == u.scheme \in {"http", "https"} /\ u.host # ""

\* Listing(**listing_data) with the validation of url and img_url left out.
Validates_Anything(data) == TRUE

\* Listing(**listing_data), lines 161-165: ValidationError when url or
\* img_url is set and no HttpUrl.
Validates(data) ==
    /\ \A u \in data.url : IsHttpUrl(u)
    /\ \A u \in data.img_url : IsHttpUrl(u)

\* Lines 112-178 of parse.py for the k-th entry e: the Listing appended, or
\* nothing when an exception skipped the entry. src is history: the position
\* of the entry on the page.
ParseEntry(e, k) ==
    IF RaisesKeyError(e.link) THEN << >>
    ELSE LET data == [url |-> ExtractUrl(e.link, k),
                      aufgegeben_datum |-> parse_date(e.aufgegeben),
                      datum_ab_frei |-> parse_date(e.frei),
                      miete |-> parse_float(e.miete),
                      adresse |-> IF e.adresse THEN {k} ELSE {},
                      img_url |-> ExtractImg(e.img, k),
                      src |-> k]
         IN  IF Validates(data) THEN <<data>> ELSE << >>

\* Lines 94-109 of fetch_table.py for the k-th entry: the URL string
\* appended, None included, or nothing when an exception skipped the entry.
ParseLink(e, k) ==
    IF RaisesKeyError(e.link) THEN << >>
    ELSE <<[url |-> ExtractUrl(e.link, k), src |-> k]>>

\* The loop over list_items from entry k on.
RECURSIVE ParseListings(_, _)
ParseListings(entries, k) ==
    IF k > Len(entries) THEN << >>
    ELSE ParseEntry(entries[k], k) \o ParseListings(entries, k + 1)

RECURSIVE ParseLinks(_, _)
ParseLinks(entries, k) ==
    IF k > Len(entries) THEN << >>
    ELSE ParseLink(entries[k], k) \o ParseLinks(entries, k + 1)

NoResult == [current_page |-> {}, total_pages |-> {}, listings |-> << >>]

ParseInit ==
    /\ p_pc = "ready"
    /\ \/ /\ p_counter \in {{}} \cup {{t} : t \in Texts(MaxCounterLen)}
          /\ p_entries = <<NominalEntry>>
       \/ /\ p_counter = {<<"Seite", " ", "1", "/", "2">>}
          /\ p_entries \in EntryLists(MaxEntries)
    /\ p_result = NoResult

InitParse ==
    /\ BatcherIdle
    /\ site = << >>
    /\ SearchIdle
    /\ TableIdle
    /\ ParseInit
    /\ DbIdle
    /\ LaterIdle

notParse == <<batcherVars, site, searchVars, tableVars, dbVars, laterVars>>

\* parse.py, lines 67-180.
ParseSearchResults ==
    /\ p_pc = "ready"
    /\ p_pc' = "parsed"
    /\ p_result' = [current_page |-> ParseCounter(p_counter).current_page,
                    total_pages |-> ParseCounter(p_counter).total_pages,
                    listings |-> ParseListings(p_entries, 1)]
    /\ UNCHANGED <<notParse, p_counter, p_entries>>

\* fetch_table.py, lines 47-109.
ParseTableResults ==
    /\ p_pc = "ready"
    /\ p_pc' = "parsed_table"
    /\ p_result' = [current_page |-> ParseCounter(p_counter).current_page,
                    total_pages |-> ParseCounter(p_counter).total_pages,
                    listings |-> ParseLinks(p_entries, 1)]
    /\ UNCHANGED <<notParse, p_counter, p_entries>>

NextParse == ParseSearchResults \/ ParseTableResults

SpecParse == InitParse /\ [][NextParse]_vars

\* =========================================================================
\* The listings table: mark_listings_as_deleted of src/database.py.
\* =========================================================================

Websites == {"wg-zimmer.ch", "woko.ch", "students.ch"}

\* The HttpUrl values of the listings, and str(url), the key of the table.
HttpUrls == {[host |-> "woko.ch", path |-> n] : n \in 1..MaxUrls}
str(url) == <<url.host, url.path>>
Keys == {str(u) : u \in HttpUrls}

\* A row of ListingSQL, or no row for the key.
NoRow == [website |-> "", status |-> ""]
Rows == {NoRow} \cup [website : Websites, status : {"active", "deleted"}]

\* Lines 128-134 without the website in the where clause.
Vanished_AnyWebsite(row, key, website, fetched) ==
    /\ row.status = "active"
    /\ key \notin fetched

\* Lines 128-134: the row is selected (active, of the website) and its url is
\* not in active_urls_in_fetch.
Vanished(row, key, website, fetched) ==
    /\ row.status = "active"
    /\ row.website = website
    /\ key \notin fetched

DbInit ==
    /\ d_pc = "ready"
    /\ table \in [Keys -> Rows]
    /\ d_urls \in SUBSET HttpUrls
    /\ d_website \in Websites
    /\ d_before = table
    /\ d_count = 0

InitDb ==
    /\ BatcherIdle
    /\ site = << >>
    /\ SearchIdle
    /\ TableIdle
    /\ ParseIdle
    /\ DbInit
    /\ LaterIdle

notDb == <<batcherVars, site, searchVars, tableVars, parseVars, laterVars>>

\* mark_listings_as_deleted(urls, website), lines 124-143.
MarkListingsAsDeleted ==
    /\ d_pc = "ready"
    /\ LET active_urls_in_fetch == {str(url) : url \in d_urls}
           gone == {k \in Keys :
                       Vanished(table[k], k, d_website, active_urls_in_fetch)}
       IN  /\ table' = [k \in Keys |->
                          IF k \in gone
                          THEN [table[k] EXCEPT !.status = "deleted"]
                          ELSE table[k]]
           /\ d_count' = Cardinality(gone)
    /\ d_pc' = "marked"
    /\ UNCHANGED <<notDb, d_urls, d_website, d_before>>

NextDb == MarkListingsAsDeleted

SpecDb == InitDb /\ [][NextDb]_vars

\* =========================================================================
\* The refresh of the three websites: refresh_all of src/refresh.py with
\* update_database, upsert_listings and insert of src/database.py and the
\* fetch_listings of the three sites.
\* =========================================================================

WG == "wg-zimmer.ch"
STUDENTS == "students.ch"
WOKO == "woko.ch"

\* The listing URLs a website can show.
SiteUrls(w) == {[host |-> w, path |-> n] : n \in 1..MaxListings}
AllKeys == {str(u) : u \in UNION {SiteUrls(w) : w \in Websites}}

\* The elements of a set of URLs as a list, by path.
RECURSIVE AsList(_)
AsList(S) ==
    IF S = {} THEN << >>
    ELSE LET u == CHOOSE x \in S : \A y \in S : x.path <= y.path
         IN  <<u>> \o AsList(S \ {u})

\* A point in time: the day, and the count of clock readings so far.
Time(d, n) == [day |-> d, instant |-> n]
NoTime == Time(0, 0)

\* refresh.py, line 22: date(day=1, month=1, year=2025), a day before any run.
FirstCutoff == 0

\* fetch_listing(url, now) of a site on the answer of the detail page: the
\* listing, None, or an exception.
\*   wg-zimmer.ch  raises on a response that is not ok and on everything else
\*   students.ch   requests.get stands outside the try block
\*   woko.ch       the whole body stands in the try block
fetch_listing(w, answer) ==
    IF answer = "ok" THEN "listing"
    ELSE IF w = WG THEN "raise"
    ELSE IF w = STUDENTS /\ answer = "network_error" THEN "raise"
    ELSE "none"

RECURSIVE KeepFetched(_, _, _, _)
KeepFetched(w, urls, answers, k) ==
    IF k > Len(urls) THEN << >>
    ELSE (IF fetch_listing(w, answers[k]) = "listing" THEN <<urls[k]>> ELSE << >>)
         \o KeepFetched(w, urls, answers, k + 1)

\* fetch_listings(urls, now) of a site: the list comprehension, and [] when
\* an exception leaves it. A listing stands for its URL.
fetch_listings(w, urls, answers) ==
    IF \E k \in DOMAIN urls : fetch_listing(w, answers[k]) = "raise"
    THEN << >>
    ELSE KeepFetched(w, urls, answers, 1)

\* insert(urls, now, website), lines 83-107: the rows after it and what it
\* returns. stored is whether batch_fetch_commutes and the commit went
\* through; the except clause makes the function return False.
\* A new row has first_seen = now and last_seen = datetime.now() read when
\* the listing was built.
insert(rows, w, urls, answers, stored, dt) ==
    LET fetched == fetch_listings(w, urls, answers)
        built == Time(dt.day, dt.instant + 1)
    IN  IF stored
        THEN [rows |-> [k \in AllKeys |->
                          IF \E i \in DOMAIN fetched : str(fetched[i]) = k
                          THEN [website |-> w, status |-> "active",
                                last_seen |-> built]
                          ELSE rows[k]],
              new_count |-> Len(fetched), fetched |-> fetched]
        ELSE [rows |-> rows, new_count |-> 0, fetched |-> fetched]

NoListing == [website |-> "", status |-> "", last_seen |-> NoTime]

\* get_listing_by_url(str(url)) finds a row.
Stored(rows, url) == rows[str(url)] # NoListing

\* upsert_listings, lines 68-76: for a stored URL load_correct subscripts the
\* pydantic model get_listing_by_url returned, json["website"], which raises
\* TypeError.
UpsertRaises(rows, urls) == \E i \in DOMAIN urls : Stored(rows, urls[i])

\* mark_listings_as_deleted on the rows.
MarkDeleted(rows, urls, w) ==
    LET active_urls_in_fetch == {str(urls[i]) : i \in DOMAIN urls}
    IN  [k \in AllKeys |->
           IF Vanished(rows[k], k, w, active_urls_in_fetch)
           THEN [rows[k] EXCEPT !.status = "deleted"]
           ELSE rows[k]]

\* update_database(urls, now, website), lines 173-190 (dt is now): the rows and the
\* updates table after it, and whether it returned.
update_database(rows, updates, urls, dt, w, answers, stored) ==
    LET marked == IF w # WG THEN MarkDeleted(rows, urls, w) ELSE rows
        n_deleted == Cardinality({k \in AllKeys : marked[k] # rows[k]})
        ins == insert(marked, w, urls, answers, stored, dt)
    IN  IF UpsertRaises(marked, urls)
        THEN [outcome |-> "TypeError", rows |-> marked, updates |-> updates,
              n_new |-> 0, n_updated |-> 0, n_deleted |-> n_deleted,
              fetched |-> << >>]
        ELSE [outcome |-> "returned", rows |-> ins.rows,
              updates |-> Append(updates,
                                 [website |-> w, n_new |-> ins.new_count,
                                  n_deleted |-> n_deleted, n_updated |-> 0,
                                  date |-> dt]),
              n_new |-> ins.new_count, n_updated |-> 0,
              n_deleted |-> n_deleted, fetched |-> ins.fetched]

\* get_last_update(Webiste.wg_zimmer_ch), then lines 21-23 of refresh.py: the
\* day of the latest recorded update.
last_update_date(updates) ==
    LET days == {updates[i].date.day : i \in {j \in DOMAIN updates :
                                                 updates[j].website = WG}}
    IN  IF days = {} THEN FirstCutoff
        ELSE CHOOSE d \in days : \A e \in days : e <= d

\* wg_zimmer_ch.fetch_table(last_update_date) on a day: the URLs posted on or
\* after last_update_date that the site shows by then.
Discovered(posted, cutoff, day) ==
    {u \in SiteUrls(WG) : cutoff <= posted[u.path] /\ posted[u.path] <= day}

InitRefresh ==
    /\ BatcherIdle
    /\ site = << >>
    /\ SearchIdle
    /\ TableIdle
    /\ ParseIdle
    /\ DbIdle
    /\ TransitIdle
    /\ DashIdle
    /\ SdkIdle
    /\ r_pc = "idle"
    /\ r_run = 0
    /\ r_now = Time(1, 0)
    /\ r_posted \in [1..MaxListings -> 1..MaxDay]
    /\ r_rows = [k \in AllKeys |-> NoListing]
    /\ r_updates = << >>
    /\ r_last = "none"
    /\ r_log = << >>

notRefresh == <<batcherVars, site, searchVars, tableVars, parseVars, dbVars,
                transitVars, dashVars, sdkVars>>

\* refresh_all, line 17: a run starts on day d.
StartRefresh(d) ==
    /\ r_pc = "idle"
    /\ r_run < MaxRuns
    /\ d >= r_now.day
    /\ r_run' = r_run + 1
    /\ r_now' = Time(d, r_now.instant + 2)
    /\ r_pc' = "wg"
    /\ r_last' = "none"
    /\ UNCHANGED <<notRefresh, r_posted, r_rows, r_updates, r_log>>

\* One website of a run: the table fetch gave urls (fetchOk says whether it
\* succeeded), update_database is called when call holds.
RefreshSite(w, fetchOk, urls, call, answers, stored, next) ==
    LET u == update_database(r_rows, r_updates, urls, r_now, w, answers, stored)
        entry == [run |-> r_run, website |-> w, fetchOk |-> fetchOk,
                  urls |-> urls, answers |-> answers, stored |-> stored,
                  now |-> r_now, before |-> r_rows,
                  cutoff |-> last_update_date(r_updates)]
    IN  IF ~call
        THEN /\ r_log' = <<[entry EXCEPT !.answers = << >>] @@
                                [outcome |-> "skipped", after |-> r_rows,
                                 cutoff_after |-> last_update_date(r_updates),
                                 fetched |-> << >>, n_new |-> 0,
                                 n_updated |-> 0, n_deleted |-> 0]>>
             /\ r_pc' = next
             /\ r_last' = IF next = "idle" THEN "returned" ELSE r_last
             /\ UNCHANGED <<r_rows, r_updates>>
        ELSE /\ r_log' = <<entry @@
                                [outcome |-> u.outcome, after |-> u.rows,
                                 cutoff_after |-> last_update_date(u.updates),
                                 fetched |-> u.fetched, n_new |-> u.n_new,
                                 n_updated |-> u.n_updated,
                                 n_deleted |-> u.n_deleted]>>
             /\ r_rows' = u.rows
             /\ r_updates' = u.updates
             /\ IF u.outcome = "returned"
                THEN /\ r_pc' = next
                     /\ r_last' = IF next = "idle" THEN "returned" ELSE r_last
                ELSE /\ r_pc' = "idle"
                     /\ r_last' = "raised"

\* What the environment of one update_database call can be: the answers of
\* the detail pages of the URLs handed to insert (none when upsert_listings
\* raised before), and whether batch_fetch_commutes and the commit went
\* through (there is nothing to fail on when no listing was fetched).
DetailAnswers == {"ok", "http_error", "network_error"}

CallEnv(w, urls, answers, stored) ==
    LET marked == IF w # WG THEN MarkDeleted(r_rows, urls, w) ELSE r_rows
    IN  IF UpsertRaises(marked, urls)
        THEN answers = << >> /\ stored
        ELSE /\ answers \in [DOMAIN urls -> DetailAnswers]
             /\ (fetch_listings(w, urls, answers) = << >> => stored)

\* refresh_all, lines 20-28: wg-zimmer.ch. fetch_table returns None when it
\* failed; update_database is called only for a non-empty list.
RefreshWg(fetchOk, answers, stored) ==
    /\ r_pc = "wg"
    /\ LET found == IF fetchOk
                    THEN AsList(Discovered(r_posted, last_update_date(r_updates),
                                           r_now.day))
                    ELSE << >>
       IN  /\ CallEnv(WG, found, answers, stored)
           /\ RefreshSite(WG, fetchOk, found, found # << >>, answers, stored,
                          "students")
    /\ UNCHANGED <<notRefresh, r_run, r_now, r_posted>>

\* refresh_all, lines 31-32 and 35-36: students.ch and woko.ch. fetch_table
\* returns [] when the response is not ok; update_database is always called.
RefreshOther(w, fetchOk, shown, answers, stored) ==
    /\ r_pc = (IF w = STUDENTS THEN "students" ELSE "woko")
    /\ shown \subseteq SiteUrls(w)
    /\ (~fetchOk => shown = {})
    /\ LET urls == AsList(shown)
       IN  /\ CallEnv(w, urls, answers, stored)
           /\ RefreshSite(w, fetchOk, urls, TRUE, answers, stored,
                          IF w = STUDENTS THEN "woko" ELSE "idle")
    /\ UNCHANGED <<notRefresh, r_run, r_now, r_posted>>

Answers(n) == UNION {[1..k -> DetailAnswers] : k \in 0..n}

RefreshStudents ==
    \E fetchOk, stored \in BOOLEAN : \E shown \in SUBSET SiteUrls(STUDENTS) :
    \E answers \in Answers(MaxListings) :
        RefreshOther(STUDENTS, fetchOk, shown, answers, stored)

RefreshWoko ==
    \E fetchOk, stored \in BOOLEAN : \E shown \in SUBSET SiteUrls(WOKO) :
    \E answers \in Answers(MaxListings) :
        RefreshOther(WOKO, fetchOk, shown, answers, stored)

NextRefresh ==
    \/ \E d \in 1..MaxDay : StartRefresh(d)
    \/ \E fetchOk, stored \in BOOLEAN : \E answers \in Answers(MaxListings) :
          RefreshWg(fetchOk, answers, stored)
    \/ RefreshStudents
    \/ RefreshWoko

SpecRefresh == InitRefresh /\ [][NextRefresh]_vars

\* =========================================================================
\* The transit summaries: summarize_connection of src/geo/public_transport.py
\* (the pipeline of fetch_commutes) and fetch_journey with summarize_connection
\* of src/fetch_listing_details/commute_data.py (the pipeline of
\* create_listing_stored).
\* =========================================================================

WAIT_SECONDS == 60
SECONDS_PER_MINUTE == 60

\* The duration strings of the answer, "00d00:MM:SS", by their fields.
Durations == {[min |-> 10, sec |-> 0], [min |-> 10, sec |-> 30],
              [min |-> 11, sec |-> 0]}

\* _pdur of summarize_connection, lines 16-19: seconds.
pdur(s) == s.min * SECONDS_PER_MINUTE + s.sec

\* parse_duration, commute_data.py lines 64-67: whole minutes.
parse_duration(s) == s.min + s.sec \div SECONDS_PER_MINUTE

\* A section is a walk or a ride on a line; it departs some seconds after the
\* previous section arrived. The first section departs with the connection.
SectionKinds == {"walk", "journey"}
Gaps == {0, 60, 90}
FirstDeparture == 1000
SectionSeconds == 120

RECURSIVE Sections(_, _, _, _)
Sections(kinds, gaps, k, prev) ==
    IF k > Len(kinds) THEN << >>
    ELSE LET dep == prev + gaps[k]
             arr == dep + SectionSeconds
         IN  <<[kind |-> kinds[k], departure |-> dep, arrival |-> arr]>>
             \o Sections(kinds, gaps, k + 1, arr)

SectionLists ==
    UNION {{Sections(kinds, gaps, 1, FirstDeparture) :
               kinds \in [1..n -> SectionKinds],
               gaps \in {g \in [1..n -> Gaps] : n >= 1 => g[1] = 0}} :
           n \in 0..MaxSections}

\* A candidate connection: from.departureTimestamp is FirstDeparture.
Connections == [duration : Durations, sections : SectionLists]

\* to.arrivalTimestamp of a connection.
Arrival(conn) ==
    IF conn.sections = << >> THEN FirstDeparture
    ELSE conn.sections[Len(conn.sections)].arrival

\* min(connections, key = ...): the first connection with the least key.
geo_best(conns) ==
    CHOOSE i \in DOMAIN conns :
        /\ \A j \in DOMAIN conns : pdur(conns[i].duration) <= pdur(conns[j].duration)
        /\ \A j \in 1..(i - 1) : pdur(conns[j].duration) > pdur(conns[i].duration)

details_best(conns) ==
    CHOOSE i \in DOMAIN conns :
        /\ \A j \in DOMAIN conns :
              parse_duration(conns[i].duration) <= parse_duration(conns[j].duration)
        /\ \A j \in 1..(i - 1) :
              parse_duration(conns[j].duration) > parse_duration(conns[i].duration)

Leg(type, seconds) == [type |-> type, length_min |-> seconds \div SECONDS_PER_MINUTE]

\* public_transport.py, lines 26-54: the loop over the sections.
RECURSIVE geo_journeys(_, _, _)
geo_journeys(secs, k, prev_ts) ==
    IF k > Len(secs) THEN << >>
    ELSE LET d_ts == secs[k].departure
             a_ts == secs[k].arrival
             wait == d_ts - prev_ts
         IN  (IF wait > WAIT_SECONDS THEN <<Leg("wait", wait)>> ELSE << >>)
             \o <<Leg(secs[k].kind, a_ts - d_ts)>>
             \o geo_journeys(secs, k + 1, a_ts)

\* commute_data.py, lines 20-56: the loop over the sections.
RECURSIVE details_journeys(_, _, _)
details_journeys(secs, k, last_ts) ==
    IF k > Len(secs) THEN << >>
    ELSE LET dep_ts == secs[k].departure
             arr_ts == secs[k].arrival
         IN  IF secs[k].kind = "journey"
             THEN (IF dep_ts > last_ts THEN <<Leg("wait", dep_ts - last_ts)>>
                   ELSE << >>)
                  \o <<Leg("journey", arr_ts - dep_ts)>>
                  \o details_journeys(secs, k + 1, arr_ts)
             ELSE (IF arr_ts > dep_ts THEN <<Leg("walk", arr_ts - dep_ts)>>
                   ELSE << >>)
                  \o details_journeys(secs, k + 1, arr_ts)

\* summarize_connection(data) of public_transport.py, lines 15-57.
geo_summarize(conns) ==
    LET best == conns[geo_best(conns)]
    IN  [total_time_min |-> pdur(best.duration) \div SECONDS_PER_MINUTE,
         journeys |-> geo_journeys(best.sections, 1, FirstDeparture)]

\* fetch_journey, lines 91-93, with summarize_connection(best), lines 16-61.
details_summarize(conns) ==
    LET best == conns[details_best(conns)]
    IN  [total_time_min |-> (Arrival(best) - FirstDeparture) \div SECONDS_PER_MINUTE,
         journeys |-> details_journeys(best.sections, 1, FirstDeparture)]

Pipelines == {"geo", "details"}

InitTransit ==
    /\ BatcherIdle
    /\ site = << >>
    /\ SearchIdle
    /\ TableIdle
    /\ ParseIdle
    /\ DbIdle
    /\ RefreshIdle
    /\ DashIdle
    /\ SdkIdle
    /\ x_pc = "answered"
    /\ x_pipeline \in Pipelines
    /\ x_conns \in UNION {[1..n -> Connections] : n \in 1..MaxConnections}
    /\ x_best = 0
    /\ x_result = [total_time_min |-> 0, journeys |-> << >>]

notTransit == <<batcherVars, site, searchVars, tableVars, parseVars, dbVars,
                refreshVars, dashVars, sdkVars>>

\* The answer of the transit service holds connections and is summarized.
Summarize ==
    /\ x_pc = "answered"
    /\ x_pc' = "returned"
    /\ x_best' = IF x_pipeline = "geo" THEN geo_best(x_conns)
                 ELSE details_best(x_conns)
    /\ x_result' = IF x_pipeline = "geo" THEN geo_summarize(x_conns)
                   ELSE details_summarize(x_conns)
    /\ UNCHANGED <<notTransit, x_pipeline, x_conns>>

NextTransit == Summarize

SpecTransit == InitTransit /\ [][NextTransit]_vars

\* =========================================================================
\* The container wrapper: run_wgzimmer_fetcher of src/sdk.py, a generator that
\* yields the log lines of the docker-compose process.
\* =========================================================================

\* A log line by what the wrapper looks for in it: SUCCESS_MARKER, the
\* entrypoint marker with "exited with code 0", the entrypoint marker with
\* another code, or none of them.
LineKinds == {"plain", "success", "exit0", "exit1"}

PopenOutcomes == {"ok", "FileNotFoundError", "PermissionError"}

InitSdk ==
    /\ BatcherIdle
    /\ site = << >>
    /\ SearchIdle
    /\ TableIdle
    /\ ParseIdle
    /\ DbIdle
    /\ RefreshIdle
    /\ TransitIdle
    /\ DashIdle
    /\ s_pc = "created"
    /\ s_lines = << >>
    /\ success_detected = FALSE
    /\ clean_exit_detected = FALSE
    /\ return_code = 0
    /\ s_outcome = "none"

notSdk == <<batcherVars, site, searchVars, tableVars, parseVars, dbVars,
            refreshVars, transitVars, dashVars>>

\* Lines 104-117: subprocess.Popen. FileNotFoundError has its own except
\* clause (line 168), every other exception reaches line 174 and is wrapped.
Popen(o) ==
    /\ s_pc = "created"
    /\ IF o = "ok"
       THEN /\ s_pc' = "reading"
            /\ UNCHANGED s_outcome
       ELSE /\ s_pc' = "failed"
            /\ s_outcome' = "DockerComposeRunnerError"
    /\ UNCHANGED <<notSdk, s_lines, success_detected, clean_exit_detected,
                   return_code>>

\* Lines 121-138: one line is read, yielded and searched for the markers.
ReadLine(kind) ==
    /\ s_pc = "reading"
    /\ Len(s_lines) < MaxLines
    /\ s_lines' = Append(s_lines, kind)
    /\ success_detected' = (success_detected \/ kind = "success")
    /\ clean_exit_detected' = (clean_exit_detected \/ kind = "exit0")
    /\ UNCHANGED <<notSdk, s_pc, return_code, s_outcome>>

\* Line 121: readline raises (the output is not UTF-8); lines 174-186 end the
\* process and wrap the exception.
ReadFails ==
    /\ s_pc = "reading"
    /\ s_pc' = "failed"
    /\ s_outcome' = "DockerComposeRunnerError"
    /\ UNCHANGED <<notSdk, s_lines, success_detected, clean_exit_detected,
                   return_code>>

\* Lines 140-166: the output ended, process.wait(), the verdict. The two
\* raise statements pass through the except clause of line 174 unchanged;
\* otherwise the function body ends, which returns None.
Wait(rc) ==
    /\ s_pc = "reading"
    /\ return_code' = rc
    /\ IF rc # 0 \/ ~success_detected
       THEN /\ s_pc' = "raised"
            /\ s_outcome' = "DockerComposeRunnerError"
       ELSE /\ s_pc' = "returned"
            /\ s_outcome' = "None"
    /\ UNCHANGED <<notSdk, s_lines, success_detected, clean_exit_detected>>

ExitCodes == {0, 1}

NextSdk ==
    \/ \E o \in PopenOutcomes : Popen(o)
    \/ \E kind \in LineKinds : ReadLine(kind)
    \/ ReadFails
    \/ \E rc \in ExitCodes : Wait(rc)

SpecSdk == InitSdk /\ [][NextSdk]_vars

\* =========================================================================
\* The dashboard: app.py. The script runs once for every page load, widget
\* event and st.rerun() of a browser session; st.session_state belongs to the
\* session, LOG_QUEUE and the fetch threads to the process.
\* =========================================================================

Sessions == 1..MaxSessions

Msg(type, payload, t) == [type |-> type, payload |-> payload, thread |-> t]

\* Lines 179-193: the loop takes one message, handles it and calls
\* st.rerun(), which ends this run of the script. The queue and the flags
\* after a run of session s.
DrainQueue(q) == IF q = << >> THEN q ELSE Tail(q)
DrainFlags(q, f, s) ==
    IF /\ q # << >>
       /\ Head(q).type = "status"
       /\ Head(q).payload \in {"finished", "error"}
    THEN [f EXCEPT ![s] = FALSE]
    ELSE f

InitDash ==
    /\ BatcherIdle
    /\ site = << >>
    /\ SearchIdle
    /\ TableIdle
    /\ ParseIdle
    /\ DbIdle
    /\ RefreshIdle
    /\ TransitIdle
    /\ SdkIdle
    /\ sessions = {}
    /\ fetching = [s \in Sessions |-> FALSE]
    /\ threads = << >>
    /\ LOG_QUEUE = << >>

notDash == <<batcherVars, site, searchVars, tableVars, parseVars, dbVars,
             refreshVars, transitVars, sdkVars>>

\* A browser loads the page: a new session, lines 165-166, then the loop of
\* lines 179-193.
LoadApp(s) ==
    /\ s \notin sessions
    /\ sessions' = sessions \cup {s}
    /\ fetching' = DrainFlags(LOG_QUEUE, [fetching EXCEPT ![s] = FALSE], s)
    /\ LOG_QUEUE' = DrainQueue(LOG_QUEUE)
    /\ UNCHANGED <<notDash, threads>>

\* The button of lines 202-207 is clicked: start_fetch, lines 123-134, then
\* the script runs. The button is disabled while the session's flag is set.
start_fetch(s) ==
    /\ s \in sessions
    /\ ~fetching[s]
    /\ Len(threads) < MaxThreads
    /\ threads' = Append(threads, [session |-> s, pc |-> "started", logs |-> 0,
                                   terminal |-> 0])
    /\ fetching' = DrainFlags(LOG_QUEUE, [fetching EXCEPT ![s] = TRUE], s)
    /\ LOG_QUEUE' = DrainQueue(LOG_QUEUE)
    /\ UNCHANGED <<notDash, sessions>>

\* The script of session s runs again (st.rerun() or any widget event) and
\* finds a message.
Rerun(s) ==
    /\ s \in sessions
    /\ LOG_QUEUE # << >>
    /\ fetching' = DrainFlags(LOG_QUEUE, fetching, s)
    /\ LOG_QUEUE' = DrainQueue(LOG_QUEUE)
    /\ UNCHANGED <<notDash, sessions, threads>>

\* The messages of the except clauses, lines 107-117.
ErrorMessages(t) ==
    <<Msg("log", "error", t), Msg("error", "error", t), Msg("status", "error", t)>>

\* fetch_thread_func, lines 92-93.
ThreadBegin(t) ==
    /\ t \in DOMAIN threads
    /\ threads[t].pc = "started"
    /\ threads' = [threads EXCEPT ![t].pc = "sdk"]
    /\ LOG_QUEUE' = LOG_QUEUE \o <<Msg("status", "starting", t),
                                   Msg("log", "line", t)>>
    /\ UNCHANGED <<notDash, sessions, fetching>>

\* Lines 97-99: a line of the generator.
ThreadLog(t) ==
    /\ t \in DOMAIN threads
    /\ threads[t].pc = "sdk"
    /\ threads[t].logs < MaxLogLines
    /\ threads' = [threads EXCEPT ![t].logs = @ + 1]
    /\ LOG_QUEUE' = Append(LOG_QUEUE, Msg("log", "line", t))
    /\ UNCHANGED <<notDash, sessions, fetching>>

\* Lines 97-117: the generator ends, or raises.
ThreadSdkEnds(t, o) ==
    /\ t \in DOMAIN threads
    /\ threads[t].pc = "sdk"
    /\ IF o = "ok"
       THEN /\ threads' = [threads EXCEPT ![t].pc = "processing"]
            /\ LOG_QUEUE' = LOG_QUEUE \o <<Msg("log", "line", t),
                                           Msg("status", "processing", t)>>
       ELSE /\ threads' = [threads EXCEPT ![t].pc = "done", ![t].terminal = @ + 1]
            /\ LOG_QUEUE' = LOG_QUEUE \o ErrorMessages(t)
    /\ UNCHANGED <<notDash, sessions, fetching>>

\* Lines 104-105 and 112-117: process_fetched_data returns, or raises.
ThreadProcess(t, o) ==
    /\ t \in DOMAIN threads
    /\ threads[t].pc = "processing"
    /\ threads' = [threads EXCEPT ![t].pc = "done", ![t].terminal = @ + 1]
    /\ LOG_QUEUE' = IF o = "ok"
                    THEN Append(LOG_QUEUE, Msg("status", "finished", t))
                    ELSE LOG_QUEUE \o ErrorMessages(t)
    /\ UNCHANGED <<notDash, sessions, fetching>>

SdkEnds == {"ok", "DockerComposeRunnerError", "Exception"}
ProcessEnds == {"ok", "Exception"}

NextDash ==
    \/ \E s \in Sessions : LoadApp(s)
    \/ \E s \in Sessions : start_fetch(s)
    \/ \E s \in Sessions : Rerun(s)
    \/ \E t \in 1..MaxThreads : ThreadBegin(t)
    \/ \E t \in 1..MaxThreads : ThreadLog(t)
    \/ \E t \in 1..MaxThreads : \E o \in SdkEnds : ThreadSdkEnds(t, o)
    \/ \E t \in 1..MaxThreads : \E o \in ProcessEnds : ThreadProcess(t, o)

SpecDash == InitDash /\ [][NextDash]_vars

\* ==================================================== claims: the scrapers
\* The iterations of the pagination loop whose listings were collected.
AcceptedPages == {k \in DOMAIN pagesLog : pagesLog[k].accepted}

\* The listings of the accepted pages of iterations k.., in page order.
RECURSIVE AcceptedListings(_)
AcceptedListings(k) ==
    IF k > Len(pagesLog) THEN << >>
    ELSE (IF pagesLog[k].accepted THEN site[pagesLog[k].shown] ELSE << >>)
         \o AcceptedListings(k + 1)

\* The run over the example site in which every page was shown in turn.
ExampleRun ==
    /\ site = ExampleSite
    /\ Len(pagesLog) = 3
    /\ \A k \in 1..3 : pagesLog[k].accepted /\ pagesLog[k].shown = k

\* Every page parsed so far reported (current = the page asked for, total = T).
Consistent(T) ==
    /\ \E k \in DOMAIN pagesLog : pagesLog[k].shown # None
    /\ \A k \in DOMAIN pagesLog :
          pagesLog[k].shown # None =>
             pagesLog[k].current = pagesLog[k].expected /\ pagesLog[k].total = T

\* The stop conditions of the pagination loop that the specification names.
NamedStops == {"last_page", "next_invisible", "next_disabled", "wait_timeout"}

\* C12: the list scrape_results_pages returns holds each listing URL at most
\* once, and every URL of a collected page once; the three-page example with
\* ExamplePerPage = 10 listings a page and 2 URLs on both page 2 and page 3
\* yields 3 * 10 - 2 = 28 listings.
C12_EachUrlOnce ==
    fpc = "returned" =>
       /\ \A a, b \in DOMAIN listings :
             (a # b /\ listings[a] # None) => listings[a] # listings[b]
       /\ Range(listings) = Range(AcceptedListings(1))
       /\ ExampleRun => Len(listings) = 3 * ExamplePerPage - 2

C12_Witness ==
    /\ fpc = "returned"
    /\ ExampleRun
    /\ Len(all_listings) = 3 * ExamplePerPage
    /\ Len(listings) = 3 * ExamplePerPage - 2

\* C13: whenever the page number parsed from a results page differs from the
\* page number the machine expects (one more than the next-clicks made), the
\* pagination halts at that page and none of its listings join the result.
C13_MismatchHalts ==
    \A k \in DOMAIN t_log :
       /\ (t_log[k].current # None /\ t_log[k].current # t_log[k].expected)
             => /\ ~t_log[k].accepted
                /\ k = Len(t_log)
                /\ t_pc # "loop"
       /\ t_log[k].accepted => t_log[k].current = t_log[k].expected

\* C14: each named stop condition ends scrape_results_pages without raising,
\* and the function returns the listings of all pages collected before it.
C14_StopReturnsCollected ==
    stop \in NamedStops =>
       /\ fpc = "returned"
       /\ raisedKind = "none"
       /\ all_listings = AcceptedListings(1)
       /\ Range(listings) = Range(AcceptedListings(1))

C14_Witness ==
    /\ stop = "wait_timeout"
    /\ fpc = "returned"
    /\ Len(pagesLog) = 3
    /\ Cardinality(Range(listings)) = 3

\* C15: when every page reports (current = the page asked for, total = T), the
\* loop makes at most T iterations, asks for no page beyond T, keeps
\* page_num <= T, and stops at the first page with page_num = T.
C15_TerminatesWithinTotal ==
    \A T \in 1..MaxPages :
       Consistent(T) =>
          /\ Len(pagesLog) <= T
          /\ page_num <= T
          /\ clicks < T
          /\ total_pages = T
          /\ fpc = "scrape" => Len(pagesLog) < T
          /\ (pagesLog[Len(pagesLog)].shown # None
                /\ pagesLog[Len(pagesLog)].expected = T) => stop = "last_page"

C15_Witness ==
    /\ Consistent(3)
    /\ Len(pagesLog) = 3
    /\ clicks = 2
    /\ stop = "last_page"
    /\ fpc = "returned"

\* C16: a first results page without pagination indicator is taken as the
\* only page: exactly one iteration, no click on a next control, no error,
\* and that page's listings are returned.
C16_NoIndicatorSinglePage ==
    (pagesLog # << >> /\ pagesLog[1].shown # None /\ pagesLog[1].current = None)
       => /\ Len(pagesLog) = 1
          /\ clicks = 0
          /\ fpc = "returned"
          /\ raisedKind = "none"
          /\ listings = unique_listings(site[pagesLog[1].shown], 1, {}, << >>)

\* C17: a page that holds the CAPTCHA marker after submit makes
\* submit_search_and_verify raise CapthaError, and CapthaError is what leaves
\* fetch_listings, also when the "Neue Suche" button is missing.
C17_CaptchaRaisesCapthaError ==
    (afterSubmit.read /\ afterSubmit.captcha) =>
       /\ fpc = "raised"
       /\ raisedKind = "CapthaError"

C17_Witness ==
    /\ afterSubmit.read
    /\ afterSubmit.captcha
    /\ ~afterSubmit.neue
    /\ fpc = "raised"
    /\ raisedKind = "CapthaError"

\* C18: main.py calls fetch_listings a second time exactly when the first
\* call raised CapthaError, and only after sleeping; a second CapthaError and
\* every other exception end the run; fetch_listings is called at most twice.
C18_RetryOnceAfterCaptcha ==
    /\ attempts <= 2
    /\ attempts = 2 =>
          firstRaised = "CapthaError" /\ mainSleeps = <<RETRY_SLEEP_SECONDS>>
    /\ attempts < 2 => mainSleeps = << >>
    /\ (mpc \in {"done", "crashed"} /\ firstRaised = "CapthaError")
          => attempts = 2
    /\ (mpc \in {"done", "crashed"} /\ firstRaised # "CapthaError")
          => attempts = 1
    /\ mpc = "done" => fpc = "returned"
    /\ mpc = "crashed" => fpc = "raised"

C18_Witness ==
    /\ attempts = 2
    /\ mainSleeps = <<RETRY_SLEEP_SECONDS>>
    /\ raisedKind = "CapthaError"
    /\ mpc = "crashed"

\* C19: when the verification after submit fails (no CAPTCHA marker, no "Neue
\* Suche" button) or a results page is stale, the run halts without an
\* exception leaving fetch_listings and returns the listings collected so far.
C19_HaltsGracefully ==
    ((afterSubmit.read /\ ~afterSubmit.captcha /\ ~afterSubmit.neue)
        \/ stop = "mismatch")
       => /\ fpc = "returned"
          /\ raisedKind = "none"
          /\ mpc # "crashed"
          /\ listings = unique_listings(all_listings, 1, {}, << >>)

\* C20: a run of the table scraper that hits a hard stop after having
\* collected N listing URLs from earlier pages returns those N URLs.
C20_HardStopReturnsCollected ==
    (t_raised # "none" /\ t_listings # {}) =>
       /\ t_pc = "returned"
       /\ t_listings \subseteq t_ret

\* ---------------------------------------- claims about the steps of a run
LastStep == trace[Len(trace)]
Requested(names) == \E k \in DOMAIN shots : shots[k] \in names

\* The screenshots requested on a failure; every other name is requested on
\* the way of a step that has not failed.
DiagnosticShots ==
    {"error_navigation_timeout", "error_navigation_generic",
     "error_form_fill_timeout", "error_form_fill_generic",
     "error_submit_timeout", "error_submit_generic", "error_captcha_detected",
     "error_timeout_final", "warning_next_button_timeout",
     "info_next_button_error"}

\* The failure kinds the steps name: Playwright's, the CAPTCHA and the failed
\* verification.
NamedFailures == PlaywrightFailures \cup {"CapthaError", "ValueError"}

\* C21: whenever navigate, fill form, submit/verify or locate-next fails and
\* the failure is surfaced (raised out of fetch_listings, or used to stop the
\* pagination), a diagnostic screenshot was requested between the failure and
\* its surfacing, for every failure kind, CAPTCHA and verification included.
C21_ScreenshotBeforeSurfacing ==
    /\ (/\ fpc = "raised"
        /\ LastStep.step \in {"navigate", "fill", "submit", "verify"}
        /\ LastStep.outcome \in NamedFailures)
          => Requested(DiagnosticShots)
    /\ stop \in {"next_timeout", "next_error"}
          => Requested({"warning_next_button_timeout", "info_next_button_error"})

\* C22: a Playwright timeout, a Playwright error or an unexpected exception
\* raised in a step of fetch_listings leaves fetch_listings as that same
\* error, and on every exit path the browser session has been closed.
C22_SameErrorBrowserClosed ==
    /\ (/\ fpc = "raised"
        /\ LastStep.outcome \in PlaywrightFailures \cup {"Exception"})
          => raisedKind = LastStep.outcome
    /\ fpc \in {"raised", "returned"} => browser # "open"

MultipleOf50InRange(p) == p % 50 = 0 /\ 200 <= p /\ p <= 1500

\* C23: fetch_listings rejects with ValueError, before a browser is launched
\* or a page visited, every min_price or max_price that is not a multiple of
\* 50 in 200..1500; for every accepted pair the run proceeds.
C23_PricesValidated ==
    attempts >= 1 =>
       IF MultipleOf50InRange(min_price) /\ MultipleOf50InRange(max_price)
       THEN /\ trace[1] = [step |-> "validate", outcome |-> "ok"]
            /\ fpc = "raised" => Len(trace) > 1
       ELSE /\ fpc = "raised"
            /\ raisedKind = "ValueError"
            /\ trace = <<[step |-> "validate", outcome |-> "ValueError"]>>
            /\ browser = "none"
            /\ ~page
            /\ ~prepared.done
            /\ shots = << >>

C23_Witness ==
    /\ min_price = PRICE_START + PRICE_STEP \div 2
    /\ fpc = "raised"
    /\ raisedKind = "ValueError"
    /\ browser = "none"
    /\ mpc = "crashed"

FetchListingsSteps ==
    <<"validate", "initialize", "navigate", "fill", "submit", "verify">>

\* C24: the steps of a run are executed in the order navigate, fill form,
\* submit, verify, paginate; a step starts only after the one before it has
\* completed successfully, pagination only after the verification succeeded,
\* and after a failure no later step is executed.
C24_StepsInOrder ==
    /\ Len(trace) <= Len(FetchListingsSteps)
    /\ \A k \in DOMAIN trace : trace[k].step = FetchListingsSteps[k]
    /\ \A k \in DOMAIN trace : k < Len(trace) => trace[k].outcome = "ok"
    /\ (fpc = "scrape" \/ pagesLog # << >>) =>
          /\ Len(trace) = Len(FetchListingsSteps)
          /\ LastStep = [step |-> "verify", outcome |-> "ok"]
    /\ (trace # << >> /\ LastStep.outcome # "ok") =>
          /\ fpc = "raised"
          /\ pagesLog = << >>

C24_Witness ==
    /\ mpc = "crashed"
    /\ Len(trace) = 4
    /\ LastStep = [step |-> "fill", outcome |-> "PlaywrightTimeoutError"]
    /\ prepared.done
    /\ ~afterSubmit.read
    /\ pagesLog = << >>

\* C25: after navigating, the machine clicks the new-search affordance exactly
\* when the affordance is visible and the search form is not; otherwise it
\* clicks nothing and goes on to the form.
C25_ClicksExactlyWhenNeeded ==
    /\ prepared.done => (prepared.clicked <=> (prepared.neue /\ ~prepared.form))
    /\ t_open.done => (t_open.clicked <=> (t_open.neue /\ ~t_open.form))

\* ------------------------------- claims about the date-threshold pagination
\* The pages holding a listing posted on or after last_update_date.
RecentPages == 1..Min(t_cut, Len(site))

\* The run read the pages in order, each with a dated last entry and, where
\* a counter is displayed, the true total, and no click on the next control
\* failed.
TableRunRegular ==
    /\ t_log # << >>
    /\ \A k \in DOMAIN t_log :
          /\ t_log[k].shown = k
          /\ t_log[k].total \in {None, Len(site)}
          /\ t_log[k].date \in {"older", "newer"}
    /\ t_raised \notin PlaywrightFailures

\* C30: the date-threshold pagination of the table scraper terminates and
\* returns every listing URL posted on or after last_update_date: it stops at
\* the first page whose last entry is older than last_update_date or whose
\* page number has reached the total, and includes that page's URLs.
C30_ReturnsRecentListings ==
    (t_pc \in {"returned", "returned_none"} /\ TableRunRegular) =>
       /\ t_pc = "returned"
       /\ \A q \in RecentPages : Range(site[q]) \subseteq t_ret
       /\ Len(t_log) = Min(t_cut, Len(site))

\* ------------------------------------------------ claims about the parser
Parsed == p_pc \in {"parsed", "parsed_table"}

AllDigits(t, i, j) == i < j /\ \A k \in i..(j - 1) : t[k] \in Digits

RECURSIVE DecimalValue(_, _, _)
DecimalValue(t, i, j) ==
    IF j <= i THEN 0
    ELSE 10 * DecimalValue(t, i, j - 1) + DigitValue[t[j - 1]]

\* The pairs <<X, Y>> for which the text reads "Seite X/Y": the word, any
\* whitespace, the digits of X, a slash, the digits of Y.
Readings(t) ==
    {<<DecimalValue(t, q[2], q[3]), DecimalValue(t, q[3] + 1, q[4])>> :
        q \in {q \in (DOMAIN t) \X (1..Len(t) + 1) \X (1..Len(t) + 1)
                      \X (1..Len(t) + 1) :
                 /\ t[q[1]] = "Seite"
                 /\ q[1] < q[2]
                 /\ \A k \in (q[1] + 1)..(q[2] - 1) : t[k] = " "
                 /\ AllDigits(t, q[2], q[3])
                 /\ q[3] <= Len(t) /\ t[q[3]] = "/"
                 /\ AllDigits(t, q[3] + 1, q[4])
                 /\ (q[4] <= Len(t) => t[q[4]] \notin Digits)}}

CounterReadings == UNION {Readings(t) : t \in p_counter}

\* C26: the parser returns (X, Y) exactly for a page whose counter reads
\* "Seite X/Y" and (None, None) for a page without such a counter; the two
\* numbers are both set or both unset.
C26_CounterParsed ==
    Parsed =>
       /\ p_result.current_page = {} <=> p_result.total_pages = {}
       /\ CounterReadings = {} =>
             p_result.current_page = {} /\ p_result.total_pages = {}
       /\ CounterReadings # {} =>
             \E m \in CounterReadings :
                /\ p_result.current_page = {m[1]}
                /\ p_result.total_pages = {m[2]}

C26_Witness ==
    /\ p_pc = "parsed"
    /\ p_counter = {<<"Seite", "1", "2", "/", "2">>}
    /\ p_result.current_page = {12}
    /\ p_result.total_pages = {2}

ItemsOf(k) ==
    {i \in DOMAIN p_result.listings : p_result.listings[i].src = k}

\* C27: every item the parser returns has a non-null absolute URL: an entry
\* with a link yields an item whose URL is the link resolved against the base
\* URL, an entry without a link is left out.
C27_ItemsHaveUrl ==
    Parsed =>
       /\ \A i \in DOMAIN p_result.listings :
             /\ p_result.listings[i].url # {}
             /\ \A u \in p_result.listings[i].url : u.scheme # "" /\ u.host # ""
       /\ \A k \in DOMAIN p_entries :
             /\ p_entries[k].link = "relative" =>
                   \E i \in ItemsOf(k) :
                      p_result.listings[i].url =
                         {[scheme |-> "https", host |-> BASE_HOST, path |-> k]}
             /\ p_entries[k].link = "none" => ItemsOf(k) = {}

\* C28: a failure to extract one field of an entry (link, date, price,
\* address, image) sets only that field to None: the entry is still returned
\* with its other fields, and the remaining entries are still parsed.
C28_FieldFailureIsolated ==
    p_pc = "parsed" =>
       \A k \in DOMAIN p_entries :
          \E i \in ItemsOf(k) :
             LET e == p_entries[k]
                 item == p_result.listings[i]
             IN  /\ item.url = {} <=> e.link \notin {"relative", "absolute"}
                 /\ item.aufgegeben_datum = {} <=> e.aufgegeben # <<18, 5, 2025>>
                 /\ item.datum_ab_frei = {} <=> e.frei # <<18, 5, 2025>>
                 /\ item.miete = {} <=> e.miete \in {<< >>, <<"a">>}
                 /\ item.adresse = {} <=> ~e.adresse
                 /\ item.img_url = {} <=> e.img # "absolute"

\* ------------------------------------------ claims about the listings table
InUrls(k) == \E u \in d_urls : str(u) = k

\* C29: after mark_listings_as_deleted(urls, website) every stored listing of
\* that website that was active and whose URL is not in urls is deleted,
\* every listing whose URL is in urls keeps its status, no listing of another
\* website is changed, and the count returned is the number of listings
\* changed.
C29_MarksVanishedListings ==
    d_pc = "marked" =>
       /\ \A k \in Keys :
             /\ (/\ d_before[k].website = d_website
                 /\ d_before[k].status = "active"
                 /\ ~InUrls(k)) => table[k].status = "deleted"
             /\ InUrls(k) => table[k] = d_before[k]
             /\ d_before[k].website # d_website => table[k] = d_before[k]
             /\ table[k].website = d_before[k].website
       /\ d_count = Cardinality({k \in Keys : table[k] # d_before[k]})

C29_Witness ==
    /\ d_pc = "marked"
    /\ d_count = 1
    /\ \E k \in Keys :
          /\ d_before[k] = [website |-> d_website, status |-> "active"]
          /\ table[k].status = "deleted"
    /\ \E k \in Keys :
          /\ d_before[k] = [website |-> d_website, status |-> "active"]
          /\ InUrls(k)
          /\ table[k].status = "active"
    /\ \E k \in Keys :
          /\ d_before[k].website \notin {"", d_website}
          /\ d_before[k].status = "active"
          /\ ~InUrls(k)
          /\ table[k].status = "active"

\* ------------------------------------------- claims about the commute fields
\* The answers the routing and transit services may give on a later run.
LaterEnvs == [page : {"ok"}, geo : {"ok"}, bike : BikeAnswers, pt : TransitAnswers]

WorkedCommutes ==
    {i \in DOMAIN status : variant = "commutes" /\ status[i] = "done"}

Calls == {i \in DOMAIN r_log : r_log[i].outcome # "skipped"}

\* The entries in which every detail page answered, and batch_fetch_commutes
\* and the commit went through.
NothingFailed(e) ==
    /\ e.fetchOk
    /\ e.stored
    /\ \A k \in DOMAIN e.answers : e.answers[k] = "ok"

\* C32: fetch_listings(urls) of every site returns, in input order, one
\* listing for each URL whose detail page was fetched and parsed, and skips
\* the URLs that failed; a failure on one URL never removes the listings of
\* the other URLs.
C32_FailuresOnlySkipTheirUrl ==
    \A i \in Calls :
        LET e == r_log[i]
        IN  e.outcome = "returned" =>
                e.fetched = SelectSeq(e.urls,
                               LAMBDA u : \E k \in DOMAIN e.urls :
                                             /\ e.urls[k] = u
                                             /\ e.answers[k] = "ok")

\* C33: a table fetch that fails does not change the status of any stored
\* listing, for each of the three websites.
C33_FailedFetchChangesNoStatus ==
    \A i \in DOMAIN r_log :
        ~r_log[i].fetchOk =>
            \A k \in AllKeys : r_log[i].after[k].status = r_log[i].before[k].status

\* C34: after update_database(urls, now, website) completes, every URL of
\* urls is stored with status active and last_seen = now; a URL already
\* stored is counted as updated, one not yet stored as new, and
\* n_new + n_updated is the number of URLs. Stated for the calls in which
\* nothing of the environment failed.
C34_UpsertPostcondition ==
    \A i \in Calls :
        LET e == r_log[i]
            known == {k \in DOMAIN e.urls : e.before[str(e.urls[k])] # NoListing}
        IN  NothingFailed(e) =>
                /\ e.outcome = "returned"
                /\ \A k \in DOMAIN e.urls :
                      /\ e.after[str(e.urls[k])].status = "active"
                      /\ e.after[str(e.urls[k])].last_seen = e.now
                /\ e.n_updated = Cardinality(known)
                /\ e.n_new = Len(e.urls) - Cardinality(known)
                /\ e.n_new + e.n_updated = Len(e.urls)

\* C31: across successive refresh_all runs the wg-zimmer.ch cutoff date
\* advances only when the listings discovered in that run were persisted: a
\* listing discovered in a run and not stored by it is discovered again by a
\* later run, that is, the cutoff does not move past the day it was posted.
C31_CutoffAdvancesOnlyWhenPersisted ==
    \A i \in DOMAIN r_log :
        LET e == r_log[i]
        IN  e.website = WG =>
                \A k \in DOMAIN e.urls :
                    e.after[str(e.urls[k])] = NoListing =>
                        e.cutoff_after <= r_posted[e.urls[k].path]

\* ===================================================== claims: the transit
\* The leg types the claim describes for a list of sections: the sections in
\* order, a wait before a section exactly when it departs more than 60
\* seconds after the previous arrival.
RECURSIVE ClaimedLegTypes(_, _, _)
ClaimedLegTypes(secs, k, prev) ==
    IF k > Len(secs) THEN << >>
    ELSE (IF secs[k].departure - prev > 60 THEN <<"wait">> ELSE << >>)
         \o <<secs[k].kind>>
         \o ClaimedLegTypes(secs, k + 1, secs[k].arrival)

\* C36: from the candidate connections the pipeline summarizes the one with
\* the minimal duration, and the leg sequence follows the order of that
\* connection's sections, with a wait leg before a section exactly when its
\* departure is more than 60 seconds after the previous arrival.
C36_ShortestConnectionLegs ==
    x_pc = "returned" =>
        /\ \A j \in DOMAIN x_conns :
              pdur(x_conns[x_best].duration) <= pdur(x_conns[j].duration)
        /\ [k \in DOMAIN x_result.journeys |-> x_result.journeys[k].type]
             = ClaimedLegTypes(x_conns[x_best].sections, 1, FirstDeparture)

\* ===================================================== claims: the wrapper
\* C39: run_wgzimmer_fetcher returns True when the success marker was seen in
\* the container logs and the process exited with code 0, and raises
\* DockerComposeRunnerError when the exit code is non-zero or the success
\* marker is missing; every other failure of the wrapper also surfaces as
\* DockerComposeRunnerError.
C39_TrueOrRunnerError ==
    /\ (s_pc \in {"returned", "raised"} /\ success_detected /\ return_code = 0)
          => (s_pc = "returned" /\ s_outcome = "True")
    /\ (s_pc \in {"returned", "raised"} /\ (~success_detected \/ return_code # 0))
          => (s_pc = "raised" /\ s_outcome = "DockerComposeRunnerError")
    /\ s_pc = "failed" => s_outcome = "DockerComposeRunnerError"

\* =================================================== claims: the dashboard
\* The fetch threads that have not put their last message yet.
Running == {t \in DOMAIN threads : threads[t].pc # "done"}

\* C37: in the dashboard at most one fetch thread is running at any time.
C37_AtMostOneFetchThread == Cardinality(Running) <= 1

\* C38: every fetch thread that ended has put exactly one terminal status
\* message on the log queue, and once the threads have ended and the UI has
\* drained the queue the fetching flag of every session is false again.
C38_FlagReturnsToFalse ==
    /\ \A t \in DOMAIN threads : threads[t].pc = "done" => threads[t].terminal = 1
    /\ (Running = {} /\ LOG_QUEUE = << >>) => \A s \in sessions : ~fetching[s]

====
